---- MODULE Spec2Model ----
(***************************************************************************)
(* State-machine model of sqlite3db: the Connection wrapper over the       *)
(* embedded engine, the Transaction / Savepoint RAII guards                *)
(* (src/src/transaction.cpp) and the MigrationManager                      *)
(* (src/src/migration.cpp).                                                *)
(*                                                                         *)
(* Every engine call takes the engine's answer as an input: a result code  *)
(* rc, 0 when the engine carries the command out, any other code when it   *)
(* refuses and leaves its state as it was.                                 *)
(***************************************************************************)
EXTENDS Integers, Sequences, FiniteSets, TLC

\* ------------------------------------------------------------------------
\* Bounds of the model
\* ------------------------------------------------------------------------
MaxVersion == 2
MaxRow == 1
MaxDepth == 2
MaxExtension == 8

Versions == 1..MaxVersion
AddVersions == (-1)..MaxVersion
Targets == 0..MaxVersion
Rows == 1..MaxRow
\* one row more, so that one can be written before a savepoint and one after
RowsAround == 1..(MaxRow + 1)
TxnIds == {"t1"}
TxnSlots == {"t1", "t2"}
SpIds == {"s1", "s2"}
\* the name each of the caller's savepoints is created with
SpName == [x \in SpIds |-> IF x = "s1" THEN "a" ELSE "b"]

\* ------------------------------------------------------------------------
\* Engine result codes and the exceptions of exceptions.hpp
\* ------------------------------------------------------------------------
SQLITE_OK == 0
\* the engine's generic refusal, the code after SQLITE_OK
SQLITE_ERROR == SQLITE_OK + 1
SQLITE_CONSTRAINT == 19
ResultCodes == {SQLITE_OK, SQLITE_ERROR, SQLITE_CONSTRAINT}
FaultCodes == ResultCodes \ {SQLITE_OK}
\* the codes of a connection with extended result codes on (the default,
\* connection.cpp:71-74): a primary code b, or b | (n << 8)
ExtendedCodes ==
    {b + 256 * n : b \in SQLITE_ERROR..SQLITE_CONSTRAINT, n \in 0..MaxExtension}

NoException == [kind |-> "none", code |-> 0, version |-> 0, msg |-> ""]
QueryException(rc) ==
    [kind |-> "QueryException", code |-> rc, version |-> 0, msg |-> ""]
ConstraintException(rc) ==
    [kind |-> "ConstraintException", code |-> rc, version |-> 0, msg |-> ""]
TransactionException(m, rc) ==
    [kind |-> "TransactionException", code |-> rc, version |-> 0, msg |-> m]
MigrationException(m, v) ==
    [kind |-> "MigrationException", code |-> 0, version |-> v, msg |-> m]
\* what a user-supplied up/down procedure throws when it fails
ProcedureFailure ==
    [kind |-> "std::exception", code |-> 0, version |-> 0, msg |-> ""]

\* ------------------------------------------------------------------------
\* The database as seen through the connection
\*   table   : the bookkeeping table __migrations exists
\*   records : versions with a row in __migrations
\*   schema  : versions whose up procedure's effect is present
\*   rows    : rows of the user's table
\* ------------------------------------------------------------------------
EmptyDb == [table |-> FALSE, records |-> {}, schema |-> {}, rows |-> {}]

\* One engine connection: inTxn (not in autocommit mode), db (what the
\* connection reads), base (what ROLLBACK restores), spTxn (the open
\* transaction was started by a SAVEPOINT), savepoints (innermost last).
NewEngine ==
    [inTxn |-> FALSE, spTxn |-> FALSE, db |-> EmptyDb, base |-> EmptyDb,
     savepoints |-> <<>>]

\* a data change: in autocommit mode it is durable at once
WriteDb(e, d) ==
    IF e.inTxn THEN [e EXCEPT !.db = d] ELSE [e EXCEPT !.db = d, !.base = d]

\* index of the innermost savepoint called name, 0 if there is none
RECURSIVE FindSavepoint(_, _, _)
FindSavepoint(sps, name, i) ==
    IF i = 0 THEN 0
    ELSE IF sps[i].name = name THEN i
    ELSE FindSavepoint(sps, name, i - 1)

EngineBegin(e) ==
    IF e.inTxn THEN [e |-> e, rc |-> SQLITE_ERROR]
    ELSE [e |-> [e EXCEPT !.inTxn = TRUE, !.spTxn = FALSE, !.base = e.db,
                          !.savepoints = <<>>],
          rc |-> SQLITE_OK]

EngineCommit(e) ==
    IF ~e.inTxn THEN [e |-> e, rc |-> SQLITE_ERROR]
    ELSE [e |-> [e EXCEPT !.inTxn = FALSE, !.spTxn = FALSE, !.base = e.db,
                          !.savepoints = <<>>],
          rc |-> SQLITE_OK]

EngineRollback(e) ==
    IF ~e.inTxn THEN [e |-> e, rc |-> SQLITE_ERROR]
    ELSE [e |-> [e EXCEPT !.inTxn = FALSE, !.spTxn = FALSE, !.db = e.base,
                          !.savepoints = <<>>],
          rc |-> SQLITE_OK]

EngineSavepoint(e, name) ==
    LET entry == [name |-> name, snap |-> e.db] IN
    IF e.inTxn
    THEN [e |-> [e EXCEPT !.savepoints = Append(e.savepoints, entry)],
          rc |-> SQLITE_OK]
    ELSE [e |-> [e EXCEPT !.inTxn = TRUE, !.spTxn = TRUE, !.base = e.db,
                          !.savepoints = <<entry>>],
          rc |-> SQLITE_OK]

EngineRelease(e, name) ==
    LET i == FindSavepoint(e.savepoints, name, Len(e.savepoints)) IN
    IF i = 0 THEN [e |-> e, rc |-> SQLITE_ERROR]
    ELSE IF i = 1 /\ e.spTxn
    THEN [e |-> [e EXCEPT !.inTxn = FALSE, !.spTxn = FALSE, !.base = e.db,
                          !.savepoints = <<>>],
          rc |-> SQLITE_OK]
    ELSE [e |-> [e EXCEPT !.savepoints = SubSeq(e.savepoints, 1, i - 1)],
          rc |-> SQLITE_OK]

EngineRollbackTo(e, name) ==
    LET i == FindSavepoint(e.savepoints, name, Len(e.savepoints)) IN
    IF i = 0 THEN [e |-> e, rc |-> SQLITE_ERROR]
    ELSE [e |-> [e EXCEPT !.db = e.savepoints[i].snap,
                          !.savepoints = SubSeq(e.savepoints, 1, i)],
          rc |-> SQLITE_OK]

EngineInsertRow(e, r) ==
    IF r \in e.db.rows THEN [e |-> e, rc |-> SQLITE_CONSTRAINT]
    ELSE [e |-> WriteDb(e, [e.db EXCEPT !.rows = @ \cup {r}]), rc |-> SQLITE_OK]

EngineCreateTable(e) ==
    [e |-> WriteDb(e, [e.db EXCEPT !.table = TRUE]), rc |-> SQLITE_OK]

\* sqlite3_exec: the engine's answer to one SQL command; fault is the
\* result code the engine answers with when it refuses the command
sqlite3_exec(e, sql, fault) ==
    IF fault # SQLITE_OK THEN [e |-> e, rc |-> fault]
    ELSE CASE sql.op = "BEGIN" -> EngineBegin(e)
           [] sql.op = "COMMIT" -> EngineCommit(e)
           [] sql.op = "ROLLBACK" -> EngineRollback(e)
           [] sql.op = "SAVEPOINT" -> EngineSavepoint(e, sql.arg)
           [] sql.op = "RELEASE SAVEPOINT" -> EngineRelease(e, sql.arg)
           [] sql.op = "ROLLBACK TO SAVEPOINT" -> EngineRollbackTo(e, sql.arg)
           [] sql.op = "INSERT" -> EngineInsertRow(e, sql.arg)
           [] sql.op = "CREATE TABLE IF NOT EXISTS" -> EngineCreateTable(e)

Sql(op, arg) == [op |-> op, arg |-> arg]

\* Connection::execute: ConstraintException when the base code is 19,
\* QueryException for every other failure
Connection_execute(e, sql, fault) ==
    LET r == sqlite3_exec(e, sql, fault) IN
    IF r.rc = SQLITE_OK THEN [e |-> r.e, exc |-> NoException]
    ELSE IF (r.rc % 256) = SQLITE_CONSTRAINT
    THEN [e |-> r.e, exc |-> ConstraintException(r.rc)]
    ELSE [e |-> r.e, exc |-> QueryException(r.rc)]

\* ------------------------------------------------------------------------
\* Transaction and Savepoint guards (transaction.hpp: conn_, name_, active_)
\*   alive   : the object exists (constructed, not yet destroyed)
\*   atBegin : the database the connection read when the guard's BEGIN or
\*             SAVEPOINT was issued
\*   ends    : how many explicit COMMIT / ROLLBACK (RELEASE for a savepoint)
\*             commands of this guard the engine has carried out
\* ------------------------------------------------------------------------
NoGuard ==
    [alive |-> FALSE, conn_ |-> FALSE, name_ |-> "", active_ |-> FALSE,
     atBegin |-> EmptyDb, ends |-> 0]
NewGuard(name, d) ==
    [alive |-> TRUE, conn_ |-> TRUE, name_ |-> name, active_ |-> TRUE,
     atBegin |-> d, ends |-> 0]

\* catch (const QueryException&) of the guards: a QueryException becomes a
\* TransactionException with the same code, anything else passes through
TranslateQueryException(exc, m) ==
    IF exc.kind = "QueryException" THEN TransactionException(m, exc.code)
    ELSE exc

\* Transaction::Transaction
Transaction_ctor_unchecked(e, type, fault) ==
    [e |-> Connection_execute(e, Sql("BEGIN", type), fault).e,
     exc |-> NoException, cmds |-> <<Sql("BEGIN", type)>>,
     g |-> NewGuard("", e.db)]

Transaction_ctor(e, type, fault) ==
    LET r == Connection_execute(e, Sql("BEGIN", type), fault) IN
    IF r.exc.kind = "none"
    THEN [e |-> r.e, exc |-> NoException, cmds |-> <<Sql("BEGIN", type)>>,
          g |-> NewGuard("", e.db)]
    ELSE [e |-> r.e, cmds |-> <<Sql("BEGIN", type)>>, g |-> NoGuard,
          exc |-> TranslateQueryException(r.exc, "Failed to begin transaction")]

\* Transaction::~Transaction: never throws
Transaction_dtor_noRollback(e, g, fault) ==
    [e |-> e, cmds |-> <<>>, g |-> NoGuard, exc |-> NoException]

Transaction_dtor_throwing(e, g, fault) ==
    IF g.active_ /\ g.conn_
    THEN [e |-> Connection_execute(e, Sql("ROLLBACK", ""), fault).e,
          cmds |-> <<Sql("ROLLBACK", "")>>, g |-> NoGuard,
          exc |-> Connection_execute(e, Sql("ROLLBACK", ""), fault).exc]
    ELSE [e |-> e, cmds |-> <<>>, g |-> NoGuard, exc |-> NoException]

Transaction_dtor_unconditional(e, g, fault) ==
    [e |-> Connection_execute(e, Sql("ROLLBACK", ""), fault).e,
     cmds |-> <<Sql("ROLLBACK", "")>>, g |-> NoGuard, exc |-> NoException]

Transaction_dtor(e, g, fault) ==
    IF g.active_ /\ g.conn_
    THEN [e |-> Connection_execute(e, Sql("ROLLBACK", ""), fault).e,
          cmds |-> <<Sql("ROLLBACK", "")>>, g |-> NoGuard, exc |-> NoException]
    ELSE [e |-> e, cmds |-> <<>>, g |-> NoGuard, exc |-> NoException]

\* Transaction::commit
Transaction_commit_unchecked(e, g, fault) ==
    LET r == Connection_execute(e, Sql("COMMIT", ""), fault) IN
    IF r.exc.kind = "none"
    THEN [e |-> r.e, cmds |-> <<Sql("COMMIT", "")>>,
          g |-> [g EXCEPT !.active_ = FALSE, !.ends = @ + 1], exc |-> NoException]
    ELSE [e |-> r.e, cmds |-> <<Sql("COMMIT", "")>>, g |-> g,
          exc |-> TranslateQueryException(r.exc, "Failed to commit")]

Transaction_commit(e, g, fault) ==
    IF ~g.active_
    THEN [e |-> e, cmds |-> <<>>, g |-> g,
          exc |-> TransactionException("Transaction already ended", 0)]
    ELSE LET r == Connection_execute(e, Sql("COMMIT", ""), fault) IN
         IF r.exc.kind = "none"
         THEN [e |-> r.e, cmds |-> <<Sql("COMMIT", "")>>,
               g |-> [g EXCEPT !.active_ = FALSE, !.ends = @ + 1], exc |-> NoException]
         ELSE [e |-> r.e, cmds |-> <<Sql("COMMIT", "")>>, g |-> g,
               exc |-> TranslateQueryException(r.exc, "Failed to commit")]

\* Transaction::rollback
Transaction_rollback(e, g, fault) ==
    IF ~g.active_
    THEN [e |-> e, cmds |-> <<>>, g |-> g,
          exc |-> TransactionException("Transaction already ended", 0)]
    ELSE LET r == Connection_execute(e, Sql("ROLLBACK", ""), fault) IN
         IF r.exc.kind = "none"
         THEN [e |-> r.e, cmds |-> <<Sql("ROLLBACK", "")>>,
               g |-> [g EXCEPT !.active_ = FALSE, !.ends = @ + 1], exc |-> NoException]
         ELSE [e |-> r.e, cmds |-> <<Sql("ROLLBACK", "")>>, g |-> g,
               exc |-> TranslateQueryException(r.exc, "Failed to rollback")]

\* a guard after it has been moved from: conn_ = nullptr, active_ = false
MovedFrom(g) ==
    [g EXCEPT !.conn_ = FALSE, !.active_ = FALSE, !.atBegin = EmptyDb, !.ends = 0]

\* Transaction::Transaction(Transaction&& other): g is the new guard
Transaction_move_ctor(e, other) ==
    [e |-> e, cmds |-> <<>>, exc |-> NoException,
     g |-> [other EXCEPT !.alive = TRUE], other |-> MovedFrom(other)]

\* Transaction::operator=(Transaction&& other), this != &other
Transaction_move_assign(e, g, other, fault) ==
    IF g.active_ /\ g.conn_
    THEN [e |-> Connection_execute(e, Sql("ROLLBACK", ""), fault).e,
          cmds |-> <<Sql("ROLLBACK", "")>>, exc |-> NoException,
          g |-> other, other |-> MovedFrom(other)]
    ELSE [e |-> e, cmds |-> <<>>, exc |-> NoException,
          g |-> other, other |-> MovedFrom(other)]

\* Transaction::Savepoint::Savepoint
Savepoint_ctor(e, name, fault) ==
    LET r == Connection_execute(e, Sql("SAVEPOINT", name), fault) IN
    IF r.exc.kind = "none"
    THEN [e |-> r.e, exc |-> NoException, cmds |-> <<Sql("SAVEPOINT", name)>>,
          g |-> NewGuard(name, e.db)]
    ELSE [e |-> r.e, cmds |-> <<Sql("SAVEPOINT", name)>>, g |-> NoGuard,
          exc |-> TranslateQueryException(r.exc, "Failed to create savepoint")]

\* Transaction::savepoint
Transaction_savepoint_unchecked(e, g, name, fault) ==
    Savepoint_ctor(e, name, fault)

Transaction_savepoint(e, g, name, fault) ==
    IF ~g.active_
    THEN [e |-> e, cmds |-> <<>>, g |-> NoGuard,
          exc |-> TransactionException(
                      "Cannot create savepoint: transaction not active", 0)]
    ELSE Savepoint_ctor(e, name, fault)

\* Transaction::Savepoint::~Savepoint: never throws
Savepoint_dtor_rollback(e, g, fault) ==
    IF g.active_ /\ g.conn_
    THEN [e |-> Connection_execute(e, Sql("ROLLBACK TO SAVEPOINT", g.name_), fault).e,
          cmds |-> <<Sql("ROLLBACK TO SAVEPOINT", g.name_)>>, g |-> NoGuard,
          exc |-> NoException]
    ELSE [e |-> e, cmds |-> <<>>, g |-> NoGuard, exc |-> NoException]

Savepoint_dtor(e, g, fault) ==
    IF g.active_ /\ g.conn_
    THEN [e |-> Connection_execute(e, Sql("RELEASE SAVEPOINT", g.name_), fault).e,
          cmds |-> <<Sql("RELEASE SAVEPOINT", g.name_)>>, g |-> NoGuard,
          exc |-> NoException]
    ELSE [e |-> e, cmds |-> <<>>, g |-> NoGuard, exc |-> NoException]

\* a Savepoint after it has been moved from: conn_ = nullptr, active_ =
\* false; name_ is a moved-from string, which no operation reads again while
\* active_ is false
MovedFromSavepoint(g) ==
    [g EXCEPT !.conn_ = FALSE, !.active_ = FALSE, !.name_ = "",
              !.atBegin = EmptyDb, !.ends = 0]

\* Savepoint::Savepoint(Savepoint&& other): g is the new guard
Savepoint_move_ctor(e, other) ==
    [e |-> e, cmds |-> <<>>, exc |-> NoException,
     g |-> [other EXCEPT !.alive = TRUE], other |-> MovedFromSavepoint(other)]

\* move assignment that leaves the assigned-to savepoint as it is
Savepoint_move_assign_noRelease(e, g, other, fault) ==
    [e |-> e, cmds |-> <<>>, exc |-> NoException,
     g |-> other, other |-> MovedFromSavepoint(other)]

\* Savepoint::operator=(Savepoint&& other), this != &other
Savepoint_move_assign(e, g, other, fault) ==
    IF g.active_ /\ g.conn_
    THEN [e |-> Connection_execute(e, Sql("RELEASE SAVEPOINT", g.name_), fault).e,
          cmds |-> <<Sql("RELEASE SAVEPOINT", g.name_)>>, exc |-> NoException,
          g |-> other, other |-> MovedFromSavepoint(other)]
    ELSE [e |-> e, cmds |-> <<>>, exc |-> NoException,
          g |-> other, other |-> MovedFromSavepoint(other)]

\* Transaction::Savepoint::release
Savepoint_release(e, g, fault) ==
    IF ~g.active_
    THEN [e |-> e, cmds |-> <<>>, g |-> g,
          exc |-> TransactionException("Savepoint already ended", 0)]
    ELSE LET r == Connection_execute(e, Sql("RELEASE SAVEPOINT", g.name_), fault) IN
         IF r.exc.kind = "none"
         THEN [e |-> r.e, cmds |-> <<Sql("RELEASE SAVEPOINT", g.name_)>>,
               g |-> [g EXCEPT !.active_ = FALSE, !.ends = @ + 1], exc |-> NoException]
         ELSE [e |-> r.e, cmds |-> <<Sql("RELEASE SAVEPOINT", g.name_)>>, g |-> g,
               exc |-> TranslateQueryException(r.exc, "Failed to release savepoint")]

\* Transaction::Savepoint::rollback: ROLLBACK TO, then RELEASE
Savepoint_rollback_releaseOnly(e, g, fault1, fault2) ==
    Savepoint_release(e, g, fault2)

\* Savepoint::rollback marking the guard inactive as soon as ROLLBACK TO has
\* succeeded
Savepoint_rollback_endedBeforeRelease(e, g, fault1, fault2) ==
    IF ~g.active_
    THEN [e |-> e, cmds |-> <<>>, g |-> g,
          exc |-> TransactionException("Savepoint already ended", 0)]
    ELSE LET r1 == Connection_execute(e, Sql("ROLLBACK TO SAVEPOINT", g.name_), fault1)
             r2 == Connection_execute(r1.e, Sql("RELEASE SAVEPOINT", g.name_), fault2)
         IN IF r1.exc.kind # "none"
            THEN [e |-> r1.e, g |-> g,
                  cmds |-> <<Sql("ROLLBACK TO SAVEPOINT", g.name_)>>,
                  exc |-> TranslateQueryException(
                              r1.exc, "Failed to rollback to savepoint")]
            ELSE [e |-> r2.e, g |-> [g EXCEPT !.active_ = FALSE, !.ends = @ + 1],
                  cmds |-> <<Sql("ROLLBACK TO SAVEPOINT", g.name_),
                             Sql("RELEASE SAVEPOINT", g.name_)>>,
                  exc |-> TranslateQueryException(
                              r2.exc, "Failed to rollback to savepoint")]

Savepoint_rollback(e, g, fault1, fault2) ==
    IF ~g.active_
    THEN [e |-> e, cmds |-> <<>>, g |-> g,
          exc |-> TransactionException("Savepoint already ended", 0)]
    ELSE LET r1 == Connection_execute(e, Sql("ROLLBACK TO SAVEPOINT", g.name_), fault1)
             r2 == Connection_execute(r1.e, Sql("RELEASE SAVEPOINT", g.name_), fault2)
         IN IF r1.exc.kind # "none"
            THEN [e |-> r1.e, g |-> g,
                  cmds |-> <<Sql("ROLLBACK TO SAVEPOINT", g.name_)>>,
                  exc |-> TranslateQueryException(
                              r1.exc, "Failed to rollback to savepoint")]
            ELSE IF r2.exc.kind # "none"
            THEN [e |-> r2.e, g |-> g,
                  cmds |-> <<Sql("ROLLBACK TO SAVEPOINT", g.name_),
                             Sql("RELEASE SAVEPOINT", g.name_)>>,
                  exc |-> TranslateQueryException(
                              r2.exc, "Failed to rollback to savepoint")]
            ELSE [e |-> r2.e, g |-> [g EXCEPT !.active_ = FALSE, !.ends = @ + 1],
                  cmds |-> <<Sql("ROLLBACK TO SAVEPOINT", g.name_),
                             Sql("RELEASE SAVEPOINT", g.name_)>>,
                  exc |-> NoException]

\* ------------------------------------------------------------------------
\* Statement::execute on the bookkeeping table (statement.cpp:148-161):
\* ConstraintException only when the result is exactly SQLITE_CONSTRAINT
\* ------------------------------------------------------------------------
EngineInsertRecord(e, v) ==
    IF ~e.db.table THEN [e |-> e, rc |-> SQLITE_ERROR]
    ELSE IF v \in e.db.records THEN [e |-> e, rc |-> SQLITE_CONSTRAINT]
    ELSE [e |-> WriteDb(e, [e.db EXCEPT !.records = @ \cup {v}]),
          rc |-> SQLITE_OK]

EngineDeleteRecord(e, v) ==
    IF ~e.db.table THEN [e |-> e, rc |-> SQLITE_ERROR]
    ELSE [e |-> WriteDb(e, [e.db EXCEPT !.records = @ \ {v}]),
          rc |-> SQLITE_OK]

sqlite3_step(e, sql, fault) ==
    IF fault # SQLITE_OK THEN [e |-> e, rc |-> fault]
    ELSE CASE sql.op = "INSERT INTO __migrations" -> EngineInsertRecord(e, sql.arg)
           [] sql.op = "DELETE FROM __migrations" -> EngineDeleteRecord(e, sql.arg)
           [] sql.op = "INSERT" -> EngineInsertRow(e, sql.arg)

Statement_execute(e, sql, fault) ==
    LET r == sqlite3_step(e, sql, fault) IN
    IF r.rc = SQLITE_OK THEN [e |-> r.e, exc |-> NoException]
    ELSE IF r.rc = SQLITE_CONSTRAINT
    THEN [e |-> r.e, exc |-> ConstraintException(r.rc)]
    ELSE [e |-> r.e, exc |-> QueryException(r.rc)]

\* ------------------------------------------------------------------------
\* MigrationManager (migration.cpp).  migrations_ maps each registered
\* version to its unit; a unit is [hasDown |-> the down procedure is set].
\* ------------------------------------------------------------------------
MaxOf(S) == CHOOSE x \in S : \A y \in S : y <= x
MinOf(S) == CHOOSE x \in S : \A y \in S : x <= y

\* std::sort(begin, end)
RECURSIVE SortAscending(_)
SortAscending(S) ==
    IF S = {} THEN <<>> ELSE <<MinOf(S)>> \o SortAscending(S \ {MinOf(S)})

\* std::sort(begin, end, std::greater<int>())
RECURSIVE SortDescending(_)
SortDescending(S) ==
    IF S = {} THEN <<>> ELSE <<MaxOf(S)>> \o SortDescending(S \ {MaxOf(S)})

\* MigrationManager::add(Migration)
MigrationManager_add_overwrite(m, version, unit) ==
    IF version <= 0
    THEN [m |-> m,
          exc |-> MigrationException("Migration version must be positive", version)]
    ELSE [m |-> [v \in (DOMAIN m) \cup {version} |->
                    IF v = version THEN unit ELSE m[v]],
          exc |-> NoException]

MigrationManager_add(m, version, unit) ==
    IF version <= 0
    THEN [m |-> m,
          exc |-> MigrationException("Migration version must be positive", version)]
    ELSE IF version \in DOMAIN m
    THEN [m |-> m,
          exc |-> MigrationException("Duplicate migration version", version)]
    ELSE [m |-> [v \in (DOMAIN m) \cup {version} |->
                    IF v = version THEN unit ELSE m[v]],
          exc |-> NoException]

\* MigrationManager::latestVersion
latestVersion(m) == IF DOMAIN m = {} THEN 0 ELSE MaxOf(DOMAIN m)

\* MigrationManager::ensureMigrationTable
ensureMigrationTable(e, fault) ==
    Connection_execute(e, Sql("CREATE TABLE IF NOT EXISTS", "__migrations"), fault)

\* SELECT MAX(version) FROM __migrations: NULL (read as 0) when empty
SelectMaxVersion(d) == IF d.records = {} THEN 0 ELSE MaxOf(d.records)

\* currentVersion counting the records
currentVersion_count(e, fault) ==
    LET en == ensureMigrationTable(e, fault) IN
    IF en.exc.kind # "none" THEN [e |-> en.e, exc |-> en.exc, value |-> 0]
    ELSE [e |-> en.e, exc |-> NoException,
          value |-> Cardinality(en.e.db.records)]

\* MigrationManager::currentVersion
currentVersion(e, fault) ==
    LET en == ensureMigrationTable(e, fault) IN
    IF en.exc.kind # "none" THEN [e |-> en.e, exc |-> en.exc, value |-> 0]
    ELSE [e |-> en.e, exc |-> NoException, value |-> SelectMaxVersion(en.e.db)]

\* MigrationManager::recordMigration
recordMigration(e, version, fault) ==
    Statement_execute(e, Sql("INSERT INTO __migrations", version), fault)

\* MigrationManager::removeMigrationRecord
removeMigrationRecord(e, version, fault) ==
    Statement_execute(e, Sql("DELETE FROM __migrations", version), fault)

\* migration.up(conn) / migration.down(conn): the unit's schema change.  A
\* failing procedure throws, having made its change (partial) or not.
RunProcedure(e, version, dir, fails, partial) ==
    LET d == IF dir = "up" THEN [e.db EXCEPT !.schema = @ \cup {version}]
             ELSE [e.db EXCEPT !.schema = @ \ {version}]
    IN IF ~fails THEN [e |-> WriteDb(e, d), exc |-> NoException]
       ELSE IF partial THEN [e |-> WriteDb(e, d), exc |-> ProcedureFailure]
       ELSE [e |-> e, exc |-> ProcedureFailure]

\* What the engine and the procedures answer during one applyTo/rollbackTo
\* call.  The loop halts at the first failure, so one failing step is enough:
\*   stage   : the step that fails ("none": nothing fails)
\*   at      : the unit at which it fails
\*   rc      : the engine's result code for a failing engine step
\*   partial : a failing procedure had already made its change
\*   cleanup : the engine's answer to the implicit ROLLBACK
Plan(stage, at, rc, partial, cleanup) ==
    [stage |-> stage, at |-> at, rc |-> rc, partial |-> partial,
     cleanup |-> cleanup]
NoFaults == Plan("none", 1, SQLITE_ERROR, FALSE, SQLITE_OK)
CleanupCodes == {SQLITE_OK, SQLITE_ERROR}
Plans ==
    {NoFaults}
    \cup {Plan("ensure", 1, SQLITE_ERROR, FALSE, SQLITE_OK)}
    \cup {Plan("begin", v, SQLITE_ERROR, FALSE, SQLITE_OK) : v \in Versions}
    \cup {Plan("procedure", v, SQLITE_ERROR, b, c) :
            v \in Versions, b \in BOOLEAN, c \in CleanupCodes}
    \cup {Plan(st, v, SQLITE_ERROR, FALSE, c) :
            st \in {"record", "commit"}, v \in Versions, c \in CleanupCodes}
\* the plans that differ for a call that processes the units todo
Range(seq) == {seq[i] : i \in 1..Len(seq)}
PlansFor(todo) ==
    {p \in Plans : p.stage \in {"none", "ensure"} \/ p.at \in Range(todo)}
FaultAt(plan, version, stage) ==
    IF plan.stage = stage /\ (stage = "ensure" \/ plan.at = version)
    THEN plan.rc ELSE SQLITE_OK

\* the versions applyTo selects: current < version <= target (lines 107-115)
ToApply_descending(m, current, targetVersion) ==
    SortDescending({v \in DOMAIN m : v > current /\ v <= targetVersion})

\* applyTo selecting every version up to the target
ToApply_fromStart(m, current, targetVersion) ==
    SortAscending({v \in DOMAIN m : v <= targetVersion})

ToApply(m, current, targetVersion) ==
    SortAscending({v \in DOMAIN m : v > current /\ v <= targetVersion})

\* the versions rollbackTo selects, highest first (lines 147-155)
ToRollback_ascending(m, current, targetVersion) ==
    SortAscending({v \in DOMAIN m : v > targetVersion /\ v <= current})

ToRollback(m, current, targetVersion) ==
    SortDescending({v \in DOMAIN m : v > targetVersion /\ v <= current})

\* the value of a step that has one outcome; each step of a call is bound
\* as  x \in {step}  so that it is computed once, as the code runs it once
The(S) == CHOOSE x \in S : TRUE

\* the try block and the scope exit of txn for one unit of applyTo/rollbackTo
\* (lines 125-135 and 169-178): procedure, bookkeeping statement, commit;
\* any std::exception becomes a MigrationException; then ~Transaction.
\* stage names the step that failed, ran the procedures that were called.
UnitBody(e, txn, version, dir, plan, message) ==
    The({The({The({The({
        [e |-> exit.e,
         exc |-> IF com.exc.kind = "none" THEN NoException
                 ELSE MigrationException(message, version),
         stage |-> IF proc.exc.kind # "none" THEN "procedure"
                   ELSE IF stmt.exc.kind # "none" THEN "record"
                   ELSE IF com.exc.kind # "none" THEN "commit"
                   ELSE "none",
         cmds |-> com.cmds \o exit.cmds,
         ran |-> <<version>>]
        : exit \in {Transaction_dtor(com.e, com.g, plan.cleanup)}})
        : com \in {IF stmt.exc.kind # "none"
                   THEN [e |-> stmt.e, g |-> txn, exc |-> stmt.exc, cmds |-> <<>>]
                   ELSE Transaction_commit(stmt.e, txn,
                                           FaultAt(plan, version, "commit"))}})
        : stmt \in {IF proc.exc.kind # "none" THEN proc
                    ELSE IF dir = "up"
                    THEN recordMigration(proc.e, version,
                                         FaultAt(plan, version, "record"))
                    ELSE removeMigrationRecord(proc.e, version,
                                               FaultAt(plan, version, "record"))}})
        : proc \in {RunProcedure(e, version, dir,
                                 plan.stage = "procedure" /\ plan.at = version,
                                 plan.partial)}})

\* Transaction txn(conn) followed by the try block
UnitTransaction(e, version, dir, plan, message) ==
    The({IF txn.exc.kind # "none"
         THEN [e |-> txn.e, exc |-> txn.exc, stage |-> "begin",
               cmds |-> txn.cmds, ran |-> <<>>]
         ELSE The({[e |-> b.e, exc |-> b.exc, stage |-> b.stage,
                    cmds |-> txn.cmds \o b.cmds, ran |-> b.ran]
                   : b \in {UnitBody(txn.e, txn.g, version, dir, plan, message)}})
         : txn \in {Transaction_ctor(e, "DEFERRED",
                                     FaultAt(plan, version, "begin"))}})

\* one iteration of the loop of applyTo (lines 118-136)
ApplyUnit(e, version, plan) ==
    UnitTransaction(e, version, "up", plan, "Migration failed")

\* one iteration of the loop of rollbackTo (lines 157-179)
RollbackUnit_downUnchecked(e, m, version, plan) ==
    UnitTransaction(e, version, "down", plan, "Rollback failed")

RollbackUnit(e, m, version, plan) ==
    IF ~m[version].hasDown
    THEN [e |-> e, stage |-> "down missing", cmds |-> <<>>, ran |-> <<>>,
          exc |-> MigrationException("Migration has no rollback function", version)]
    ELSE UnitTransaction(e, version, "down", plan, "Rollback failed")

\* the loop going on to the next unit after a unit has failed
RECURSIVE UnitLoop_continuing(_, _, _, _, _)
UnitLoop_continuing(e, m, todo, dir, plan) ==
    IF todo = <<>>
    THEN [e |-> e, exc |-> NoException, stage |-> "none", cmds |-> <<>>,
          ran |-> <<>>]
    ELSE The({The({[e |-> rest.e,
                    exc |-> IF u.exc.kind # "none" THEN u.exc ELSE rest.exc,
                    stage |-> IF u.exc.kind # "none" THEN u.stage ELSE rest.stage,
                    cmds |-> u.cmds \o rest.cmds, ran |-> u.ran \o rest.ran]
                   : rest \in {UnitLoop_continuing(u.e, m, Tail(todo), dir, plan)}})
              : u \in {IF dir = "up" THEN ApplyUnit(e, Head(todo), plan)
                       ELSE RollbackUnit(e, m, Head(todo), plan)}})

\* for (int version : toApply) / for (int version : toRollback)
RECURSIVE UnitLoop(_, _, _, _, _)
UnitLoop(e, m, todo, dir, plan) ==
    IF todo = <<>>
    THEN [e |-> e, exc |-> NoException, stage |-> "none", cmds |-> <<>>,
          ran |-> <<>>]
    ELSE The({IF u.exc.kind # "none" THEN u
              ELSE The({[e |-> rest.e, exc |-> rest.exc, stage |-> rest.stage,
                         cmds |-> u.cmds \o rest.cmds, ran |-> u.ran \o rest.ran]
                        : rest \in {UnitLoop(u.e, m, Tail(todo), dir, plan)}})
              : u \in {IF dir = "up" THEN ApplyUnit(e, Head(todo), plan)
                       ELSE RollbackUnit(e, m, Head(todo), plan)}})

\* pending with the units at the current version included
pending_fromCurrent(e, m, fault) ==
    The({[e |-> current.e, exc |-> current.exc,
          value |-> IF current.exc.kind # "none" THEN <<>>
                    ELSE SortAscending({v \in DOMAIN m : v >= current.value})]
         : current \in {currentVersion(e, fault)}})

\* MigrationManager::pending: migrations_ is a std::map, iterated in
\* ascending key order; value is the versions of the units returned
pending(e, m, fault) ==
    The({[e |-> current.e, exc |-> current.exc,
          value |-> IF current.exc.kind # "none" THEN <<>>
                    ELSE SelectSeq(SortAscending(DOMAIN m),
                                   LAMBDA version : version > current.value)]
         : current \in {currentVersion(e, fault)}})

\* isUpToDate comparing with > instead of >=
isUpToDate_strict(e, m, fault) ==
    The({[e |-> current.e, exc |-> current.exc,
          value |-> current.exc.kind = "none"
                    /\ current.value > latestVersion(m)]
         : current \in {currentVersion(e, fault)}})

\* MigrationManager::isUpToDate; value is the bool returned
isUpToDate(e, m, fault) ==
    The({[e |-> current.e, exc |-> current.exc,
          value |-> current.exc.kind = "none"
                    /\ current.value >= latestVersion(m)]
         : current \in {currentVersion(e, fault)}})

\* MigrationManager::applyTo
applyTo(e, m, targetVersion, plan) ==
    The({IF en.exc.kind # "none"
         THEN [e |-> en.e, exc |-> en.exc, stage |-> "ensure", cmds |-> <<>>,
               ran |-> <<>>]
         ELSE The({UnitLoop(current.e, m,
                            ToApply(m, current.value, targetVersion), "up", plan)
                   : current \in {currentVersion(en.e, SQLITE_OK)}})
         : en \in {ensureMigrationTable(e, FaultAt(plan, 0, "ensure"))}})

\* MigrationManager::apply
apply(e, m, plan) == applyTo(e, m, latestVersion(m), plan)

\* rollbackTo without a lower limit at the current version
rollbackTo_aboveTarget(e, m, targetVersion, plan) ==
    The({IF current.exc.kind # "none"
         THEN [e |-> current.e, exc |-> current.exc, stage |-> "ensure",
               cmds |-> <<>>, ran |-> <<>>]
         ELSE UnitLoop(current.e, m,
                       SortDescending({v \in DOMAIN m : v > targetVersion}),
                       "down", plan)
         : current \in {currentVersion(e, FaultAt(plan, 0, "ensure"))}})

\* MigrationManager::rollbackTo
rollbackTo(e, m, targetVersion, plan) ==
    The({IF current.exc.kind # "none"
         THEN [e |-> current.e, exc |-> current.exc, stage |-> "ensure",
               cmds |-> <<>>, ran |-> <<>>]
         ELSE IF targetVersion >= current.value
         THEN [e |-> current.e, exc |-> NoException, stage |-> "none",
               cmds |-> <<>>, ran |-> <<>>]
         ELSE UnitLoop(current.e, m,
                       ToRollback(m, current.value, targetVersion), "down", plan)
         : current \in {currentVersion(e, FaultAt(plan, 0, "ensure"))}})

\* ------------------------------------------------------------------------
\* SchemaValidator (migration.hpp, migration.cpp).  A std::string is a
\* sequence of characters.
\* ------------------------------------------------------------------------
MaxRequirements == 3

INTEGER == <<"I", "N", "T", "E", "G", "E", "R">>
TEXT == <<"T", "E", "X", "T">>
text == <<"t", "e", "x", "t">>
int == <<"i", "n", "t">>

\* the types a column of the schema is declared with
DeclaredTypes == {INTEGER, text}
\* the expectedType arguments; the empty string is "any type"
ExpectedTypes == {<<>>, TEXT, int}

TableNames == {"users", "posts"}
\* the (table, column) pairs requirements are made about
ColumnPairs == {<<"users", "name">>, <<"posts", "name">>}
\* the (table, index) pairs requirements are made about
IndexPairs == {<<"users", "idx_users_name">>}

\* one row of PRAGMA table_info: name (column 1), type (2), notnull (3)
ColumnInfo(name, type, notnull) ==
    [name |-> name, type |-> type, notnull |-> notnull]

\* one row of sqlite_master
MasterRow(type, name, tbl_name) ==
    [type |-> type, name |-> name, tbl_name |-> tbl_name]

\* the schemas validate is run against: table users is absent, or holds
\* column id alone, or id and name; an index on users(name) may exist
UsersId == <<ColumnInfo("id", INTEGER, FALSE)>>
Catalogs ==
    {[master |-> {}, info |-> [t \in TableNames |-> <<>>]]}
    \cup {[master |-> {MasterRow("table", "users", "users")},
           info |-> [t \in TableNames |-> IF t = "users" THEN UsersId ELSE <<>>]]}
    \cup {[master |-> {MasterRow("table", "users", "users")} \cup ix,
           info |-> [t \in TableNames |->
                        IF t = "users"
                        THEN UsersId \o <<ColumnInfo("name", ty, nn)>>
                        ELSE <<>>]]
          : ty \in DeclaredTypes, nn \in BOOLEAN,
            ix \in SUBSET {MasterRow("index", "idx_users_name", "users")}}

\* SchemaValidator after construction
NewValidator ==
    [tableRequirements_ |-> <<>>, columnRequirements_ |-> <<>>,
     indexRequirements_ |-> <<>>]

SchemaValidator_requireTable(v, tableName) ==
    [v EXCEPT !.tableRequirements_ = Append(@, [name |-> tableName])]

SchemaValidator_requireColumn(v, tableName, columnName, expectedType) ==
    [v EXCEPT !.columnRequirements_ =
        Append(@, [tableName |-> tableName, columnName |-> columnName,
                   expectedType |-> expectedType, requireNotNull |-> FALSE])]

\* requireNotNull's loop: the first requirement of the pair, 0 when none
RECURSIVE FindColumnRequirement(_, _, _, _)
FindColumnRequirement(reqs, tableName, columnName, i) ==
    IF i > Len(reqs) THEN 0
    ELSE IF reqs[i].tableName = tableName /\ reqs[i].columnName = columnName
         THEN i
         ELSE FindColumnRequirement(reqs, tableName, columnName, i + 1)

SchemaValidator_requireNotNull(v, tableName, columnName) ==
    The({IF i # 0
         THEN [v EXCEPT !.columnRequirements_[i].requireNotNull = TRUE]
         ELSE [v EXCEPT !.columnRequirements_ =
                  Append(@, [tableName |-> tableName, columnName |-> columnName,
                             expectedType |-> <<>>, requireNotNull |-> TRUE])]
         : i \in {FindColumnRequirement(v.columnRequirements_,
                                        tableName, columnName, 1)}})

SchemaValidator_requireIndex(v, tableName, indexName) ==
    [v EXCEPT !.indexRequirements_ =
        Append(@, [tableName |-> tableName, indexName |-> indexName])]

\* std::toupper on one character, left as it is
toupper_asIs(c) == c

\* std::toupper on one character
toupper(c) ==
    CASE c = "t" -> "T"
      [] c = "e" -> "E"
      [] c = "x" -> "X"
      [] c = "i" -> "I"
      [] c = "n" -> "N"
      [] OTHER -> c

\* for (char& c : s) c = std::toupper(c)
ToUpper(s) == [i \in DOMAIN s |-> toupper(s[i])]

\* std::string::npos
npos == 0 - 1

\* std::string::find: the first position (from 0) needle occurs at
RECURSIVE find(_, _, _)
find(hay, needle, pos) ==
    IF pos + Len(needle) > Len(hay) THEN npos
    ELSE IF SubSeq(hay, pos + 1, pos + Len(needle)) = needle THEN pos
         ELSE find(hay, needle, pos + 1)

ValidationError(type, message) == [type |-> type, message |-> message]

\* the table loop of validate, from requirement i on
RECURSIVE CheckTables(_, _, _)
CheckTables(reqs, c, i) ==
    IF i > Len(reqs) THEN <<>>
    ELSE (IF \E row \in c.master :
                 row.type = "table" /\ row.name = reqs[i].name
          THEN <<>>
          ELSE <<ValidationError("missing_table",
                    <<"Required table '", reqs[i].name, "' does not exist">>)>>)
         \o CheckTables(reqs, c, i + 1)

\* the errors of a column requirement against the row of its column
CheckColumn(req, row) ==
    (IF req.expectedType # <<>>
        /\ find(ToUpper(row.type), ToUpper(req.expectedType), 0) = npos
     THEN <<ValidationError("wrong_type",
               <<"Column '", req.tableName, ".", req.columnName,
                 "' has type '", row.type, "', expected '",
                 req.expectedType, "'">>)>>
     ELSE <<>>)
    \o (IF req.requireNotNull /\ ~row.notnull
        THEN <<ValidationError("nullable",
                  <<"Column '", req.tableName, ".", req.columnName,
                    "' should be NOT NULL">>)>>
        ELSE <<>>)

\* the while (stmt.step()) loop over the rows of PRAGMA table_info
RECURSIVE CheckRows(_, _, _)
CheckRows(req, rows, k) ==
    IF k > Len(rows)
    THEN <<ValidationError("missing_column",
              <<"Required column '", req.tableName, ".", req.columnName,
                "' does not exist">>)>>
    ELSE IF rows[k].name = req.columnName
         THEN CheckColumn(req, rows[k])
         ELSE CheckRows(req, rows, k + 1)

\* the column loop of validate, from requirement i on
RECURSIVE CheckColumns(_, _, _)
CheckColumns(reqs, c, i) ==
    IF i > Len(reqs) THEN <<>>
    ELSE CheckRows(reqs[i], c.info[reqs[i].tableName], 1)
         \o CheckColumns(reqs, c, i + 1)

\* the index loop of validate, from requirement i on
RECURSIVE CheckIndexes(_, _, _)
CheckIndexes(reqs, c, i) ==
    IF i > Len(reqs) THEN <<>>
    ELSE (IF \E row \in c.master :
                 /\ row.type = "index"
                 /\ row.tbl_name = reqs[i].tableName
                 /\ row.name = reqs[i].indexName
          THEN <<>>
          ELSE <<ValidationError("missing_index",
                    <<"Required index '", reqs[i].indexName, "' on table '",
                      reqs[i].tableName, "' does not exist">>)>>)
         \o CheckIndexes(reqs, c, i + 1)

\* validate with the column checks first
SchemaValidator_validate_columnsFirst(v, c) ==
    CheckColumns(v.columnRequirements_, c, 1)
    \o CheckTables(v.tableRequirements_, c, 1)
    \o CheckIndexes(v.indexRequirements_, c, 1)

\* SchemaValidator::validate against the schema c of the connection
SchemaValidator_validate(v, c) ==
    CheckTables(v.tableRequirements_, c, 1)
    \o CheckColumns(v.columnRequirements_, c, 1)
    \o CheckIndexes(v.indexRequirements_, c, 1)

\* SchemaException: what() is "Schema error: " followed by text, a sequence
\* of the parts written to the stream
SchemaException ==
    [kind |-> "SchemaException", code |-> 0, version |-> 0,
     msg |-> "Schema error: "]

\* the for loop of validateOrThrow: "  - " << error.message << "\n"
RECURSIVE ErrorLines(_, _)
ErrorLines(errors, i) ==
    IF i > Len(errors) THEN <<>>
    ELSE <<"  - ">> \o errors[i].message \o <<"\n">>
         \o ErrorLines(errors, i + 1)

\* validateOrThrow naming only the first error
SchemaValidator_validateOrThrow_firstOnly(v, c) ==
    The({IF errors # <<>>
         THEN [exc |-> SchemaException,
               text |-> <<"Schema validation failed with ",
                          ToString(Len(errors)), " error(s):\n">>
                        \o ErrorLines(<<errors[1]>>, 1)]
         ELSE [exc |-> NoException, text |-> <<>>]
         : errors \in {SchemaValidator_validate(v, c)}})

\* SchemaValidator::validateOrThrow
SchemaValidator_validateOrThrow(v, c) ==
    The({IF errors # <<>>
         THEN [exc |-> SchemaException,
               text |-> <<"Schema validation failed with ",
                          ToString(Len(errors)), " error(s):\n">>
                        \o ErrorLines(errors, 1)]
         ELSE [exc |-> NoException, text |-> <<>>]
         : errors \in {SchemaValidator_validate(v, c)}})

\* ------------------------------------------------------------------------
\* withTransaction (transaction.hpp:183-209).  The callable func is given by
\* what it does with the connection and the Transaction it is handed:
\*   row    : the row it inserts with conn.execute
\*   ends   : it then calls txn.commit() ("commit"), txn.rollback()
\*            ("rollback") or neither ("none")
\*   raises : it then throws instead of returning its result, the row
\* ------------------------------------------------------------------------
Funcs == [row : RowsAround, ends : {"none", "commit", "rollback"},
          raises : BOOLEAN]

\* func(txn): a failing statement ends it with the statement's exception
RunFunc(e, g, f) ==
    The({IF ins.exc.kind # "none"
         THEN [e |-> ins.e, g |-> g, exc |-> ins.exc, cmds |-> <<>>]
         ELSE The({[e |-> end.e, g |-> end.g, cmds |-> end.cmds,
                    exc |-> IF f.raises THEN ProcedureFailure ELSE NoException]
                   : end \in {IF f.ends = "commit"
                              THEN Transaction_commit(ins.e, g, SQLITE_OK)
                              ELSE IF f.ends = "rollback"
                              THEN Transaction_rollback(ins.e, g, SQLITE_OK)
                              ELSE [e |-> ins.e, g |-> g, cmds |-> <<>>]}})
         : ins \in {Connection_execute(e, Sql("INSERT", f.row), SQLITE_OK)}})

\* withTransaction returning func's result without committing
withTransaction_noCommit(e, f, faultBegin, faultCommit, cleanup) ==
    The({IF txn.exc.kind # "none"
         THEN [e |-> txn.e, exc |-> txn.exc, stage |-> "begin", g |-> txn.g,
               cmds |-> txn.cmds, result |-> <<>>]
         ELSE The({The({
              [e |-> exit.e, exc |-> body.exc, g |-> txn.g,
               stage |-> IF body.exc.kind # "none" THEN "func" ELSE "none",
               cmds |-> txn.cmds \o body.cmds \o exit.cmds,
               result |-> IF body.exc.kind # "none" THEN <<>> ELSE <<f.row>>]
              : exit \in {Transaction_dtor(body.e, body.g, cleanup)}})
              : body \in {RunFunc(txn.e, txn.g, f)}})
         : txn \in {Transaction_ctor(e, "DEFERRED", faultBegin)}})

\* withTransaction(conn, func): Transaction txn(conn); func(txn);
\* txn.commit(); return, and ~Transaction on every way out.  g is the
\* Transaction as constructed, result what the caller is returned.
withTransaction(e, f, faultBegin, faultCommit, cleanup) ==
    The({IF txn.exc.kind # "none"
         THEN [e |-> txn.e, exc |-> txn.exc, stage |-> "begin", g |-> txn.g,
               cmds |-> txn.cmds, result |-> <<>>]
         ELSE The({The({The({
              [e |-> exit.e, exc |-> com.exc, g |-> txn.g,
               stage |-> IF body.exc.kind # "none" THEN "func"
                         ELSE IF com.exc.kind # "none" THEN "commit"
                         ELSE "none",
               cmds |-> txn.cmds \o body.cmds \o com.cmds \o exit.cmds,
               result |-> IF com.exc.kind # "none" THEN <<>> ELSE <<f.row>>]
              : exit \in {Transaction_dtor(com.e, com.g, cleanup)}})
              : com \in {IF body.exc.kind # "none"
                         THEN [e |-> body.e, g |-> body.g, exc |-> body.exc,
                               cmds |-> <<>>]
                         ELSE Transaction_commit(body.e, body.g, faultCommit)}})
              : body \in {RunFunc(txn.e, txn.g, f)}})
         : txn \in {Transaction_ctor(e, "DEFERRED", faultBegin)}})

\* ------------------------------------------------------------------------
\* Statement: binding a Value and reading a column (statement.hpp,
\* statement.cpp).  A Value is a kind with its content v, a sequence: empty
\* for null, one number for int64, one double for double, the characters of a
\* text, the bytes of a blob.  A double is named by its numeral.
\* ------------------------------------------------------------------------
MaxLen == 3
MaxInt64 == 2

Int64s == (0 - MaxInt64)..MaxInt64
Doubles == {"0.0", "-0.0", "1.5", "inf", "nan"}
Chars == {"a", "b"}
Bytes == {0, 255}
SeqsUpTo(S, n) == UNION {[1..k -> S] : k \in 0..n}
Texts == SeqsUpTo(Chars, MaxLen)
Blobs == SeqsUpTo(Bytes, MaxLen)

NullValue == [kind |-> "null", v |-> <<>>]
Int64Value(n) == [kind |-> "int64", v |-> <<n>>]
DoubleValue(x) == [kind |-> "double", v |-> <<x>>]
TextValue(str) == [kind |-> "text", v |-> str]
BlobValue(bytes) == [kind |-> "blob", v |-> bytes]

\* what the engine holds for a bound parameter and for a column of a row
Cell(type, v) == [type |-> type, v |-> v]
NullCell == Cell("SQLITE_NULL", <<>>)

sqlite3_bind_null == NullCell
sqlite3_bind_int64(n) == Cell("SQLITE_INTEGER", <<n>>)
\* the engine stores NaN as NULL
sqlite3_bind_double(x) ==
    IF x = "nan" THEN NullCell ELSE Cell("SQLITE_FLOAT", <<x>>)
\* a null pointer binds NULL, whatever the length
sqlite3_bind_text(isNullPointer, str) ==
    IF isNullPointer THEN NullCell ELSE Cell("SQLITE_TEXT", str)
sqlite3_bind_blob(isNullPointer, bytes) ==
    IF isNullPointer THEN NullCell ELSE Cell("SQLITE_BLOB", bytes)

\* Statement::bind(int, const Value&) and the overload it dispatches to.
\* std::string::c_str() is never null; std::vector::data() of an empty
\* vector may be null (emptyDataIsNull).
Statement_bind(value, emptyDataIsNull) ==
    CASE value.kind = "null" -> sqlite3_bind_null
      [] value.kind = "int64" -> sqlite3_bind_int64(value.v[1])
      [] value.kind = "double" -> sqlite3_bind_double(value.v[1])
      [] value.kind = "text" -> sqlite3_bind_text(FALSE, value.v)
      [] value.kind = "blob" ->
            sqlite3_bind_blob(value.v = <<>> /\ emptyDataIsNull, value.v)

\* the engine's column readers, for a column holding what a bind of the
\* reader's own type stored: NULL reads as 0, 0.0, a null pointer
sqlite3_column_type(c) == c.type
sqlite3_column_int64(c) == IF c.type = "SQLITE_NULL" THEN 0 ELSE c.v[1]
sqlite3_column_double(c) == IF c.type = "SQLITE_NULL" THEN "0.0" ELSE c.v[1]
sqlite3_column_bytes(c) == Len(c.v)
\* sqlite3_column_text / sqlite3_column_blob return a null pointer for NULL,
\* sqlite3_column_blob also for a blob of length 0
ColumnTextIsNull(c) == c.type = "SQLITE_NULL"
ColumnBlobIsNull(c) == c.type = "SQLITE_NULL" \/ Len(c.v) = 0

Statement_isNull(c) == sqlite3_column_type(c) = "SQLITE_NULL"
Statement_columnInt64(c) == Int64Value(sqlite3_column_int64(c))
Statement_columnDouble(c) == DoubleValue(sqlite3_column_double(c))
Statement_columnString(c) ==
    IF ColumnTextIsNull(c) THEN TextValue(<<>>)
    ELSE TextValue(SubSeq(c.v, 1, sqlite3_column_bytes(c)))
Statement_columnBlob(c) ==
    IF ColumnBlobIsNull(c) \/ sqlite3_column_bytes(c) = 0 THEN BlobValue(<<>>)
    ELSE BlobValue(SubSeq(c.v, 1, sqlite3_column_bytes(c)))
Statement_columnValue(c) ==
    CASE sqlite3_column_type(c) = "SQLITE_NULL" -> NullValue
      [] sqlite3_column_type(c) = "SQLITE_INTEGER" -> Statement_columnInt64(c)
      [] sqlite3_column_type(c) = "SQLITE_FLOAT" -> Statement_columnDouble(c)
      [] sqlite3_column_type(c) = "SQLITE_TEXT" -> Statement_columnString(c)
      [] sqlite3_column_type(c) = "SQLITE_BLOB" -> Statement_columnBlob(c)
      [] OTHER -> NullValue

\* the typed reader of each kind of Value
TypedReader(kind) ==
    CASE kind = "null" -> "isNull"
      [] kind = "int64" -> "columnInt64"
      [] kind = "double" -> "columnDouble"
      [] kind = "text" -> "columnString"
      [] kind = "blob" -> "columnBlob"

\* what a reader returns for a column; isNull's TRUE is read as NullValue
ReadColumn(reader, c) ==
    CASE reader = "isNull" ->
            IF Statement_isNull(c) THEN NullValue
            ELSE [kind |-> "not null", v |-> <<>>]
      [] reader = "columnInt64" -> Statement_columnInt64(c)
      [] reader = "columnDouble" -> Statement_columnDouble(c)
      [] reader = "columnString" -> Statement_columnString(c)
      [] reader = "columnBlob" -> Statement_columnBlob(c)
      [] reader = "columnValue" -> Statement_columnValue(c)

\* no row written yet
NoCell == [bound |-> NullValue, stored |-> NullCell, row |-> FALSE]

\* ------------------------------------------------------------------------
\* BatchInsertBuilder (repository.hpp, repository.cpp): rows_ is the queue
\* of rows, each a sequence of values, batchSize_ the number of rows per
\* transaction.  The table has one column, its primary key, so a queued row
\* is <<key>> and the insert of a key that is present fails.
\* ------------------------------------------------------------------------
MaxBatchRows == 3
DefaultBatchSize == 1000

BatchColumns == <<"id">>
BatchValues == {<<>>} \cup {<<r>> : r \in RowsAround}
BatchSizes == (0..MaxBatchRows) \cup {DefaultBatchSize}
\* 0: no insert is refused by the engine for a reason of its own
FaultRows == 0..MaxBatchRows

NewBatch == [rows_ |-> <<>>, batchSize_ |-> DefaultBatchSize]

\* BatchInsertBuilder::addRow
BatchInsertBuilder_addRow(b, values) ==
    IF Len(values) # Len(BatchColumns)
    THEN [b |-> b, exc |-> QueryException(0)]
    ELSE [b |-> [b EXCEPT !.rows_ = Append(@, values)], exc |-> NoException]

\* BatchInsertBuilder::setBatchSize
BatchInsertBuilder_setBatchSize(b, size) == [b EXCEPT !.batchSize_ = size]

\* BatchInsertBuilder::clear
BatchInsertBuilder_clear(b) == [b EXCEPT !.rows_ = <<>>]

\* the inner loop of execute: rows rowIdx+1 .. batchEnd (rowIdx counts from
\* 0 as in the code); the engine refuses the insert of row number faultAt
RECURSIVE InsertBatchRows(_, _, _, _, _, _)
InsertBatchRows(e, rows, rowIdx, batchEnd, faultAt, cmds) ==
    IF rowIdx >= batchEnd
    THEN [e |-> e, exc |-> NoException, rowIdx |-> rowIdx, cmds |-> cmds]
    ELSE The({IF r.exc.kind # "none"
              THEN [e |-> r.e, exc |-> r.exc, rowIdx |-> rowIdx,
                    cmds |-> Append(cmds, Sql("INSERT", rows[rowIdx + 1][1]))]
              ELSE InsertBatchRows(r.e, rows, rowIdx + 1, batchEnd, faultAt,
                                   Append(cmds, Sql("INSERT", rows[rowIdx + 1][1])))
              : r \in {Statement_execute(e, Sql("INSERT", rows[rowIdx + 1][1]),
                                         IF rowIdx + 1 = faultAt
                                         THEN SQLITE_ERROR ELSE SQLITE_OK)}})

Min(a, b) == IF a <= b THEN a ELSE b

\* the outer loop of execute: one Transaction per batch of batchSize_ rows,
\* destroyed at the end of the iteration or when an exception leaves it
RECURSIVE BatchLoop(_, _, _, _, _, _, _)
BatchLoop(e, b, batchStart, totalInserted, faultAt, cleanup, cmds) ==
    IF batchStart >= Len(b.rows_)
    THEN [e |-> e, exc |-> NoException, returns |-> TRUE,
          value |-> totalInserted, cmds |-> cmds]
    ELSE The({IF txn.exc.kind # "none"
         THEN [e |-> txn.e, exc |-> txn.exc, returns |-> TRUE,
               value |-> 0, cmds |-> cmds \o txn.cmds]
         ELSE The({The({The({
              IF com.exc.kind # "none"
              THEN [e |-> exit.e, exc |-> com.exc, returns |-> TRUE,
                    value |-> 0,
                    cmds |-> cmds \o txn.cmds \o ins.cmds \o com.cmds \o exit.cmds]
              ELSE BatchLoop(exit.e, b, batchStart + b.batchSize_,
                             totalInserted + (ins.rowIdx - batchStart),
                             faultAt, cleanup,
                             cmds \o txn.cmds \o ins.cmds \o com.cmds)
              : exit \in {Transaction_dtor(com.e, com.g, cleanup)}})
              : com \in {IF ins.exc.kind # "none"
                         THEN [e |-> ins.e, g |-> txn.g, exc |-> ins.exc,
                               cmds |-> <<>>]
                         ELSE Transaction_commit(ins.e, txn.g, SQLITE_OK)}})
              : ins \in {InsertBatchRows(txn.e, b.rows_, batchStart,
                                         Min(batchStart + b.batchSize_,
                                             Len(b.rows_)),
                                         faultAt, <<>>)}})
         : txn \in {Transaction_ctor(e, "DEFERRED", SQLITE_OK)}})

\* BatchInsertBuilder::execute.  With batchSize_ = 0 and a BEGIN the engine
\* accepts, batchStart never advances: every iteration begins and commits an
\* empty transaction and the call does not return.
BatchInsertBuilder_execute(e, b, faultAt, cleanup) ==
    IF Len(b.rows_) = 0
    THEN [e |-> e, exc |-> NoException, returns |-> TRUE, value |-> 0,
          cmds |-> <<>>]
    ELSE IF b.batchSize_ = 0 /\ ~e.inTxn
    THEN [e |-> e, exc |-> NoException, returns |-> FALSE, value |-> 0,
          cmds |-> <<Sql("BEGIN", "DEFERRED"), Sql("COMMIT", "")>>]
    ELSE BatchLoop(e, b, 0, 0, faultAt, cleanup, <<>>)

\* ------------------------------------------------------------------------
\* Compiled statements (statement.cpp:12-57, connection.cpp:95-108).
\*   obj       : the caller's Statement objects; stmt_ is the handle the
\*               object holds, 0 for nullptr
\*   prepared  : the number of handles sqlite3_prepare_v2 has returned
\*   finalized : for each handle, how often sqlite3_finalize was called on it
\*   db_       : the connection is open
\*   crashed   : a handle was finalized again after it had been freed, and
\*               the process did not survive it
\* ------------------------------------------------------------------------
MaxHandles == 2
StmtIds == {"q1", "q2"}
Handles == 1..MaxHandles

NoStatement == [alive |-> FALSE, stmt_ |-> 0]
NoStatements ==
    [obj |-> [q \in StmtIds |-> NoStatement], prepared |-> 0,
     finalized |-> [h \in Handles |-> 0], db_ |-> TRUE, crashed |-> FALSE]

\* sqlite3_finalize(stmt)
sqlite3_finalize(s, h) == [s EXCEPT !.finalized[h] = @ + 1]

\* the handles sqlite3_next_stmt returns: prepared on the connection and not
\* yet finalized
Outstanding(s) == {h \in 1..s.prepared : s.finalized[h] = 0}

\* the handle of object q has been freed already
Dangling(s, q) == s.obj[q].stmt_ # 0 /\ s.finalized[s.obj[q].stmt_] > 0

\* Statement::Statement(Connection&, const std::string&): on a closed
\* connection sqlite3_prepare_v2 is given a null handle and answers with an
\* error code
Statement_ctor(s, q, fault) ==
    IF ~s.db_ \/ fault # SQLITE_OK
    THEN [s |-> s, exc |-> QueryException(IF s.db_ THEN fault ELSE SQLITE_ERROR)]
    ELSE [s |-> [s EXCEPT !.prepared = @ + 1,
                          !.obj[q] = [alive |-> TRUE, stmt_ |-> s.prepared + 1]],
          exc |-> NoException]

\* Statement::finalize
Statement_finalize(s, q) ==
    IF s.obj[q].stmt_ # 0
    THEN [sqlite3_finalize(s, s.obj[q].stmt_) EXCEPT !.obj[q].stmt_ = 0]
    ELSE s

\* Statement::~Statement
Statement_dtor(s, q) ==
    [Statement_finalize(s, q) EXCEPT !.obj[q] = NoStatement]

\* Statement::Statement(Statement&& other)
Statement_move_ctor(s, other, q) ==
    [s EXCEPT !.obj[q] = [alive |-> TRUE, stmt_ |-> s.obj[other].stmt_],
              !.obj[other].stmt_ = 0]

\* Statement::operator=(Statement&& other)
Statement_move_assign(s, other, q) ==
    IF q = other THEN s
    ELSE [Statement_finalize(s, q)
             EXCEPT !.obj[q].stmt_ = s.obj[other].stmt_,
                    !.obj[other].stmt_ = 0]

\* Connection::close: finalizes what sqlite3_next_stmt returns, then closes
RECURSIVE FinalizeAll(_, _)
FinalizeAll(s, hs) ==
    IF hs = {} THEN s
    ELSE LET h == CHOOSE x \in hs : TRUE
         IN FinalizeAll(sqlite3_finalize(s, h), hs \ {h})

Connection_close(s) ==
    IF s.db_ THEN [FinalizeAll(s, Outstanding(s)) EXCEPT !.db_ = FALSE]
    ELSE s

\* ------------------------------------------------------------------------
\* State
\*   migrations_ : MigrationManager::migrations_
\*   conn        : the engine connection behind the Connection object
\*   txns        : the caller's Transaction guards
\*   sps         : the caller's Savepoint guards
\*   last        : what the caller observed of the last operation
\*   validator   : the caller's SchemaValidator
\*   catalog     : sqlite_master and PRAGMA table_info of the connection's
\*                 database, as validate reads them
\*   cell        : the column of the row a prepared INSERT wrote (stored) and
\*                 the Value that was bound for it (bound)
\*   batch       : the caller's BatchInsertBuilder
\*   statements  : the caller's Statement objects and the handles compiled on
\*                 the connection
\* ------------------------------------------------------------------------
VARIABLES migrations_, conn, txns, sps, last, validator, catalog, cell, batch,
          statements

vars == <<migrations_, conn, txns, sps, last, validator, catalog, cell,
          batch, statements>>

Units == [hasDown : BOOLEAN]
\* no version: below every version add is ever called with
NoK == MinOf(AddVersions) - 1

\* the observation of one call: its result (exc), the failing step (stage),
\* the engine commands (cmds) and procedures (ran) it issued, the implicit
\* ROLLBACK's answer (cleanup) and the guard it was called on (g0).  prevK is
\* K when the call before was a successful applyTo(K) that left
\* currentVersion <= K.
Observe(op, arg, r, cleanup, g0) ==
    [op |-> op, arg |-> arg, exc |-> r.exc, stage |-> r.stage,
     cmds |-> r.cmds, ran |-> r.ran, cleanup |-> cleanup, g0 |-> g0,
     prevK |-> IF last.op \in {"applyTo", "apply"} /\ last.exc.kind = "none"
                  /\ SelectMaxVersion(conn.db) <= last.arg
                  /\ op \in {"applyTo", "apply"}
               THEN last.arg ELSE NoK]

\* the observation of a guard operation
ObserveGuard(op, arg, r, g0) ==
    Observe(op, arg,
            [exc |-> r.exc, stage |-> "none", cmds |-> r.cmds, ran |-> <<>>],
            SQLITE_OK, g0)

NoObservation ==
    [op |-> "none", arg |-> 0, exc |-> NoException, stage |-> "none",
     cmds |-> <<>>, ran |-> <<>>, cleanup |-> SQLITE_OK, g0 |-> NoGuard,
     prevK |-> NoK]

Init ==
    /\ migrations_ = <<>>
    /\ conn = NewEngine
    /\ txns = [t \in TxnSlots |-> NoGuard]
    /\ sps = [x \in SpIds |-> NoGuard]
    /\ last = NoObservation
    /\ validator = NewValidator
    /\ catalog = The({c \in Catalogs : c.master = {}})
    /\ cell = NoCell
    /\ batch = NewBatch
    /\ statements = NoStatements

\* the implicit ROLLBACK's answer matters only when a unit's body failed
CleanupOf(r, plan) ==
    IF r.stage \in {"procedure", "record", "commit"} THEN plan.cleanup
    ELSE SQLITE_OK

\* migrations.add(version, description, up[, down])
Add(version, unit) ==
    \E r \in {MigrationManager_add(migrations_, version, unit)} :
    /\ migrations_' = r.m
    /\ last' = Observe("add", version,
                       [exc |-> r.exc, stage |-> "none", cmds |-> <<>>,
                        ran |-> <<>>], SQLITE_OK, NoGuard)
    /\ UNCHANGED <<conn, txns, sps, validator, catalog, cell, batch, statements>>

\* migrations.applyTo(conn, target)
ApplyTo(target) ==
    \E plan \in PlansFor(ToApply(migrations_, SelectMaxVersion(conn.db), target)) :
       \E r \in {applyTo(conn, migrations_, target, plan)} :
       /\ conn' = r.e
       /\ last' = Observe("applyTo", target, r, CleanupOf(r, plan), NoGuard)
       /\ UNCHANGED <<migrations_, txns, sps, validator, catalog, cell, batch, statements>>

\* migrations.apply(conn)
Apply ==
    \E plan \in PlansFor(ToApply(migrations_, SelectMaxVersion(conn.db),
                                 latestVersion(migrations_))) :
       \E r \in {apply(conn, migrations_, plan)} :
       /\ conn' = r.e
       /\ last' = Observe("apply", latestVersion(migrations_), r,
                          CleanupOf(r, plan), NoGuard)
       /\ UNCHANGED <<migrations_, txns, sps, validator, catalog, cell, batch, statements>>

\* migrations.rollbackTo(conn, target)
RollbackTo(target) ==
    \E plan \in PlansFor(ToRollback(migrations_, SelectMaxVersion(conn.db), target)) :
       \E r \in {rollbackTo(conn, migrations_, target, plan)} :
       /\ conn' = r.e
       /\ last' = Observe("rollbackTo", target, r, CleanupOf(r, plan), NoGuard)
       /\ UNCHANGED <<migrations_, txns, sps, validator, catalog, cell, batch, statements>>

\* migrations.currentVersion(conn): the value returned is observed in last.arg
QueryCurrentVersion(fault) ==
    \E r \in {currentVersion(conn, fault)} :
    /\ conn' = r.e
    /\ last' = Observe("currentVersion", r.value,
                       [exc |-> r.exc, stage |-> "none", cmds |-> <<>>,
                        ran |-> <<>>], SQLITE_OK, NoGuard)
    /\ UNCHANGED <<migrations_, txns, sps, validator, catalog, cell, batch, statements>>

\* migrations.pending(conn): the versions returned are observed in last.ran
QueryPending(fault) ==
    \E r \in {pending(conn, migrations_, fault)} :
    /\ conn' = r.e
    /\ last' = Observe("pending", 0,
                       [exc |-> r.exc, stage |-> "none", cmds |-> <<>>,
                        ran |-> r.value], SQLITE_OK, NoGuard)
    /\ UNCHANGED <<migrations_, txns, sps, validator, catalog, cell, batch, statements>>

\* migrations.isUpToDate(conn): the bool returned is observed in last.arg
\* (1 for true, 0 for false)
QueryIsUpToDate(fault) ==
    \E r \in {isUpToDate(conn, migrations_, fault)} :
    /\ conn' = r.e
    /\ last' = Observe("isUpToDate", IF r.value THEN 1 ELSE 0,
                       [exc |-> r.exc, stage |-> "none", cmds |-> <<>>,
                        ran |-> <<>>], SQLITE_OK, NoGuard)
    /\ UNCHANGED <<migrations_, txns, sps, validator, catalog, cell, batch, statements>>

\* Transaction txn(conn, type) in the caller's scope
BeginTransaction(t, type, fault) ==
    /\ ~txns[t].alive
    /\ \E r \in {Transaction_ctor(conn, type, fault)} :
       /\ conn' = r.e
       /\ txns' = [txns EXCEPT ![t] = r.g]
       /\ last' = ObserveGuard("Transaction", t, r, txns[t])
    /\ UNCHANGED <<migrations_, sps, validator, catalog, cell, batch, statements>>

\* txn.commit()
Commit(t, fault) ==
    /\ txns[t].alive
    /\ \E r \in {Transaction_commit(conn, txns[t], fault)} :
       /\ conn' = r.e
       /\ txns' = [txns EXCEPT ![t] = r.g]
       /\ last' = ObserveGuard("commit", t, r, txns[t])
    /\ UNCHANGED <<migrations_, sps, validator, catalog, cell, batch, statements>>

\* txn.rollback()
Rollback(t, fault) ==
    /\ txns[t].alive
    /\ \E r \in {Transaction_rollback(conn, txns[t], fault)} :
       /\ conn' = r.e
       /\ txns' = [txns EXCEPT ![t] = r.g]
       /\ last' = ObserveGuard("rollback", t, r, txns[t])
    /\ UNCHANGED <<migrations_, sps, validator, catalog, cell, batch, statements>>

\* txn leaves its scope
DestroyTransaction(t, fault) ==
    /\ txns[t].alive
    /\ \E r \in {Transaction_dtor(conn, txns[t], fault)} :
       /\ conn' = r.e
       /\ txns' = [txns EXCEPT ![t] = r.g]
       /\ last' = ObserveGuard("~Transaction", t, r, txns[t])
    /\ UNCHANGED <<migrations_, sps, validator, catalog, cell, batch, statements>>

\* auto sp = txn.savepoint(name)
CreateSavepoint(t, x, name, fault) ==
    /\ txns[t].alive
    /\ ~sps[x].alive
    /\ Len(conn.savepoints) < MaxDepth
    /\ \E r \in {Transaction_savepoint(conn, txns[t], name, fault)} :
       /\ conn' = r.e
       /\ sps' = [sps EXCEPT ![x] = r.g]
       /\ last' = ObserveGuard("savepoint", x, r, txns[t])
    /\ UNCHANGED <<migrations_, txns, validator, catalog, cell, batch, statements>>

\* sp.release()
Release(x, fault) ==
    /\ sps[x].alive
    /\ \E r \in {Savepoint_release(conn, sps[x], fault)} :
       /\ conn' = r.e
       /\ sps' = [sps EXCEPT ![x] = r.g]
       /\ last' = ObserveGuard("release", x, r, sps[x])
    /\ UNCHANGED <<migrations_, txns, validator, catalog, cell, batch, statements>>

\* sp.rollback()
RollbackSavepoint(x, fault1, fault2) ==
    /\ sps[x].alive
    /\ \E r \in {Savepoint_rollback(conn, sps[x], fault1, fault2)} :
       /\ conn' = r.e
       /\ sps' = [sps EXCEPT ![x] = r.g]
       /\ last' = ObserveGuard("Savepoint::rollback", x, r, sps[x])
    /\ UNCHANGED <<migrations_, txns, validator, catalog, cell, batch, statements>>

\* sp leaves its scope
DestroySavepoint(x, fault) ==
    /\ sps[x].alive
    /\ \E r \in {Savepoint_dtor(conn, sps[x], fault)} :
       /\ conn' = r.e
       /\ sps' = [sps EXCEPT ![x] = r.g]
       /\ last' = ObserveGuard("~Savepoint", x, r, sps[x])
    /\ UNCHANGED <<migrations_, txns, validator, catalog, cell, batch, statements>>

\* conn.execute("INSERT ...") by the caller
Insert(row, fault) ==
    \E r \in {Connection_execute(conn, Sql("INSERT", row), fault)} :
    /\ conn' = r.e
    /\ last' = ObserveGuard("execute", row,
                            [exc |-> r.exc, cmds |-> <<Sql("INSERT", row)>>],
                            NoGuard)
    /\ UNCHANGED <<migrations_, txns, sps, validator, catalog, cell, batch, statements>>

\* conn.prepare("INSERT ...").bind(1, row).execute() by the caller
InsertPrepared(row, fault) ==
    \E r \in {Statement_execute(conn, Sql("INSERT", row), fault)} :
    /\ conn' = r.e
    /\ last' = ObserveGuard("Statement::execute", row,
                            [exc |-> r.exc, cmds |-> <<Sql("INSERT", row)>>],
                            NoGuard)
    /\ UNCHANGED <<migrations_, txns, sps, validator, catalog, cell, batch, statements>>

\* Transaction to(std::move(from)) in the caller's scope
MoveConstruct(from, to) ==
    /\ txns[from].alive
    /\ ~txns[to].alive
    /\ \E r \in {Transaction_move_ctor(conn, txns[from])} :
       /\ conn' = r.e
       /\ txns' = [txns EXCEPT ![to] = r.g, ![from] = r.other]
       /\ last' = ObserveGuard("Transaction(&&)", to, r, txns[to])
    /\ UNCHANGED <<migrations_, sps, validator, catalog, cell, batch, statements>>

\* to = std::move(from)
MoveAssign(from, to, fault) ==
    /\ txns[from].alive
    /\ txns[to].alive
    /\ IF from = to
       THEN /\ last' = ObserveGuard("operator=", to,
                                    [exc |-> NoException, cmds |-> <<>>], txns[to])
            /\ UNCHANGED <<conn, txns>>
       ELSE \E r \in {Transaction_move_assign(conn, txns[to], txns[from], fault)} :
            /\ conn' = r.e
            /\ txns' = [txns EXCEPT ![to] = r.g, ![from] = r.other]
            /\ last' = ObserveGuard("operator=", to, r, txns[to])
    /\ UNCHANGED <<migrations_, sps, validator, catalog, cell, batch, statements>>

\* The MigrationManager on one connection
Next ==
    \/ \E v \in AddVersions, u \in Units : Add(v, u)
    \/ \E k \in Targets : ApplyTo(k)
    \/ Apply
    \/ \E k \in Targets : RollbackTo(k)

Spec == Init /\ [][Next]_vars

\* A manager whose units were all registered before the first call: the
\* registered set is any set add accepts
RegisteredSets == UNION {[S -> Units] : S \in SUBSET Versions}

InitRegistered ==
    /\ migrations_ \in RegisteredSets
    /\ conn = NewEngine
    /\ txns = [t \in TxnSlots |-> NoGuard]
    /\ sps = [x \in SpIds |-> NoGuard]
    /\ last = NoObservation
    /\ validator = NewValidator
    /\ catalog = The({c \in Catalogs : c.master = {}})
    /\ cell = NoCell
    /\ batch = NewBatch
    /\ statements = NoStatements

NextRegistered ==
    \/ \E k \in Targets : ApplyTo(k)
    \/ Apply
    \/ \E k \in Targets : RollbackTo(k)
    \/ \E rc \in {SQLITE_OK, SQLITE_ERROR} : QueryCurrentVersion(rc)
    \/ \E rc \in {SQLITE_OK, SQLITE_ERROR} : QueryPending(rc)

SpecRegistered == InitRegistered /\ [][NextRegistered]_vars

\* A manager with any registered set on a database in any bookkeeping
\* state: the database was migrated before, by this or by another manager,
\* whose units of the recorded versions have run.  Recorded versions are
\* positive, as add accepts no other.
Databases ==
    {d \in [table : BOOLEAN, records : SUBSET Versions,
            schema : SUBSET Versions, rows : {{}}] :
        /\ d.schema = d.records
        /\ (d.records # {}) => d.table}

InitBookkeeping ==
    /\ migrations_ \in RegisteredSets
    /\ \E d \in Databases : conn = [NewEngine EXCEPT !.db = d, !.base = d]
    /\ txns = [t \in TxnSlots |-> NoGuard]
    /\ sps = [x \in SpIds |-> NoGuard]
    /\ last = NoObservation
    /\ validator = NewValidator
    /\ catalog = The({c \in Catalogs : c.master = {}})
    /\ cell = NoCell
    /\ batch = NewBatch
    /\ statements = NoStatements

NextBookkeeping ==
    \/ \E k \in Targets : ApplyTo(k)
    \/ Apply
    \/ \E k \in Targets : RollbackTo(k)
    \/ \E rc \in {SQLITE_OK, SQLITE_ERROR} : QueryCurrentVersion(rc)
    \/ \E rc \in {SQLITE_OK, SQLITE_ERROR} : QueryPending(rc)
    \/ \E rc \in {SQLITE_OK, SQLITE_ERROR} : QueryIsUpToDate(rc)

SpecBookkeeping == InitBookkeeping /\ [][NextBookkeeping]_vars

\* The caller's Transaction and Savepoint guards on one connection
NextGuards ==
    \/ \E t \in TxnIds, rc \in ResultCodes : BeginTransaction(t, "DEFERRED", rc)
    \/ \E t \in TxnIds, rc \in ResultCodes : Commit(t, rc)
    \/ \E t \in TxnIds, rc \in ResultCodes : Rollback(t, rc)
    \/ \E t \in TxnIds, rc \in ResultCodes : DestroyTransaction(t, rc)
    \/ \E t \in TxnIds, x \in SpIds, rc \in ResultCodes :
          CreateSavepoint(t, x, SpName[x], rc)
    \/ \E x \in SpIds, rc \in ResultCodes : Release(x, rc)
    \/ \E x \in SpIds, rc1 \in ResultCodes, rc2 \in ResultCodes :
          RollbackSavepoint(x, rc1, rc2)
    \/ \E x \in SpIds, rc \in ResultCodes : DestroySavepoint(x, rc)
    \/ \E r \in Rows, rc \in ResultCodes : Insert(r, rc)

SpecGuards == Init /\ [][NextGuards]_vars

\* Two Transaction objects of the caller on one connection, with moves
NextTransactions ==
    \/ \E t \in TxnSlots, rc \in ResultCodes : BeginTransaction(t, "DEFERRED", rc)
    \/ \E t \in TxnSlots, rc \in ResultCodes : Commit(t, rc)
    \/ \E t \in TxnSlots, rc \in ResultCodes : Rollback(t, rc)
    \/ \E t \in TxnSlots, rc \in ResultCodes : DestroyTransaction(t, rc)
    \/ \E from \in TxnSlots, to \in TxnSlots : MoveConstruct(from, to)
    \/ \E from \in TxnSlots, to \in TxnSlots, rc \in ResultCodes :
          MoveAssign(from, to, rc)
    \/ \E t \in TxnSlots, rc \in ResultCodes :
          CreateSavepoint(t, "s1", SpName["s1"], rc)
    \/ \E rc \in ResultCodes : DestroySavepoint("s1", rc)
    \/ \E r \in Rows, rc \in ResultCodes : Insert(r, rc)

SpecTransactions == Init /\ [][NextTransactions]_vars

\* One statement executed either way, the engine answering any code
NextExecute ==
    \/ \E r \in Rows, rc \in ExtendedCodes \cup {SQLITE_OK} : Insert(r, rc)
    \/ \E r \in Rows, rc \in ExtendedCodes \cup {SQLITE_OK} : InsertPrepared(r, rc)

SpecExecute == Init /\ [][NextExecute]_vars

\* Savepoints inside one transaction, with rows written before and after
NextSavepoints ==
    \/ \E t \in TxnIds, rc \in ResultCodes : BeginTransaction(t, "DEFERRED", rc)
    \/ \E t \in TxnIds, rc \in ResultCodes : Commit(t, rc)
    \/ \E t \in TxnIds, rc \in ResultCodes : Rollback(t, rc)
    \/ \E t \in TxnIds, x \in SpIds, rc \in ResultCodes :
          CreateSavepoint(t, x, SpName[x], rc)
    \/ \E x \in SpIds, rc \in ResultCodes : Release(x, rc)
    \/ \E x \in SpIds, rc1 \in ResultCodes, rc2 \in ResultCodes :
          RollbackSavepoint(x, rc1, rc2)
    \/ \E r \in RowsAround, rc \in ResultCodes : Insert(r, rc)

SpecSavepoints == Init /\ [][NextSavepoints]_vars

\* stmt.bind(1, value).execute() on INSERT INTO t (v) VALUES (?), v a column
\* that stores what it is given
BindAndInsert(value, emptyDataIsNull) ==
    /\ cell' = [bound |-> value, stored |-> Statement_bind(value, emptyDataIsNull),
                row |-> TRUE]
    /\ last' = [NoObservation EXCEPT !.op = "bind"]
    /\ UNCHANGED <<migrations_, conn, txns, sps, validator, catalog, batch, statements>>

\* stmt.step() on SELECT v FROM t and one reader on column 0: the typed
\* reader of the kind that was bound, or columnValue (the result is observed
\* in last.ran)
ReadBack(reader) ==
    /\ cell.row
    /\ reader \in {TypedReader(cell.bound.kind), "columnValue"}
    /\ last' = [NoObservation EXCEPT !.op = reader,
                                     !.ran = ReadColumn(reader, cell.stored)]
    /\ UNCHANGED <<migrations_, conn, txns, sps, validator, catalog, cell, batch, statements>>

Readers ==
    {"isNull", "columnInt64", "columnDouble", "columnString", "columnBlob",
     "columnValue"}

NextValues ==
    \/ BindAndInsert(NullValue, FALSE)
    \/ \E n \in Int64s : BindAndInsert(Int64Value(n), FALSE)
    \/ \E x \in Doubles : BindAndInsert(DoubleValue(x), FALSE)
    \/ \E str \in Texts : BindAndInsert(TextValue(str), FALSE)
    \/ \E bytes \in Blobs, isNull \in BOOLEAN :
          BindAndInsert(BlobValue(bytes), isNull)
    \/ \E reader \in Readers : ReadBack(reader)

SpecValues == Init /\ [][NextValues]_vars

\* withTransaction(conn, func) by the caller: the callable is observed in
\* last.arg, the result in last.ran, the Transaction as constructed in
\* last.g0
WithTransaction(f, faultBegin, faultCommit, cleanup) ==
    \E r \in {withTransaction(conn, f, faultBegin, faultCommit, cleanup)} :
    /\ conn' = r.e
    /\ last' = Observe("withTransaction", f,
                       [exc |-> r.exc, stage |-> r.stage, cmds |-> r.cmds,
                        ran |-> r.result], cleanup, r.g)
    /\ UNCHANGED <<migrations_, txns, sps, validator, catalog, cell, batch, statements>>

NextWithTransaction ==
    \/ \E f \in Funcs, rc1 \in ResultCodes, rc2 \in ResultCodes,
          cleanup \in CleanupCodes :
          WithTransaction(f, rc1, rc2, cleanup)
    \/ \E r \in RowsAround : Insert(r, SQLITE_OK)

SpecWithTransaction == Init /\ [][NextWithTransaction]_vars

\* batch.addRow(values) by the caller
AddRow(values) ==
    /\ Len(batch.rows_) < MaxBatchRows
    /\ \E r \in {BatchInsertBuilder_addRow(batch, values)} :
       /\ batch' = r.b
       /\ last' = ObserveGuard("addRow", values,
                               [exc |-> r.exc, cmds |-> <<>>], NoGuard)
    /\ UNCHANGED <<migrations_, conn, txns, sps, validator, catalog, cell,
                   statements>>

\* batch.setBatchSize(size) by the caller
SetBatchSize(size) ==
    /\ batch' = BatchInsertBuilder_setBatchSize(batch, size)
    /\ last' = ObserveGuard("setBatchSize", size,
                            [exc |-> NoException, cmds |-> <<>>], NoGuard)
    /\ UNCHANGED <<migrations_, conn, txns, sps, validator, catalog, cell,
                   statements>>

\* batch.clear() by the caller
ClearBatch ==
    /\ batch' = BatchInsertBuilder_clear(batch)
    /\ last' = ObserveGuard("clear", 0,
                            [exc |-> NoException, cmds |-> <<>>], NoGuard)
    /\ UNCHANGED <<migrations_, conn, txns, sps, validator, catalog, cell,
                   statements>>

\* batch.execute() by the caller: the returned count is observed in
\* last.ran, the database before the call in last.g0.atBegin; a call that
\* does not return is observed with stage "no return"
ExecuteBatch(faultAt, cleanup) ==
    /\ faultAt <= Len(batch.rows_)
    /\ \E r \in {BatchInsertBuilder_execute(conn, batch, faultAt, cleanup)} :
       /\ conn' = r.e
       /\ last' = Observe("BatchInsertBuilder::execute", faultAt,
                          [exc |-> r.exc,
                           stage |-> IF r.returns THEN "none" ELSE "no return",
                           cmds |-> r.cmds,
                           ran |-> IF r.returns /\ r.exc.kind = "none"
                                   THEN <<r.value>> ELSE <<>>],
                          cleanup, [NoGuard EXCEPT !.atBegin = conn.db])
    /\ UNCHANGED <<migrations_, txns, sps, validator, catalog, cell, batch, statements>>

NextBatch ==
    \/ \E values \in BatchValues : AddRow(values)
    \/ \E size \in BatchSizes : SetBatchSize(size)
    \/ ClearBatch
    \/ \E faultAt \in FaultRows, cleanup \in CleanupCodes :
          ExecuteBatch(faultAt, cleanup)
    \/ \E r \in RowsAround : Insert(r, SQLITE_OK)

SpecBatch == Init /\ [][NextBatch]_vars

\* Transaction::Savepoint sp(conn, name) by the caller, without a Transaction
ConstructSavepoint(x, name, fault) ==
    /\ ~sps[x].alive
    /\ Len(conn.savepoints) < MaxDepth
    /\ \E r \in {Savepoint_ctor(conn, name, fault)} :
       /\ conn' = r.e
       /\ sps' = [sps EXCEPT ![x] = r.g]
       /\ last' = ObserveGuard("Savepoint", x, r, NoGuard)
    /\ UNCHANGED <<migrations_, txns, validator, catalog, cell, batch, statements>>

\* Savepoints created through their Transaction or directly, and the parent
\* ended explicitly or by destruction
NextSavepointScope ==
    \/ \E t \in TxnIds, rc \in ResultCodes : BeginTransaction(t, "DEFERRED", rc)
    \/ \E t \in TxnIds, rc \in ResultCodes : Commit(t, rc)
    \/ \E t \in TxnIds, rc \in ResultCodes : Rollback(t, rc)
    \/ \E t \in TxnIds, rc \in ResultCodes : DestroyTransaction(t, rc)
    \/ \E t \in TxnIds, x \in SpIds, rc \in ResultCodes :
          CreateSavepoint(t, x, SpName[x], rc)
    \/ \E x \in SpIds, rc \in ResultCodes : ConstructSavepoint(x, SpName[x], rc)
    \/ \E x \in SpIds, rc \in ResultCodes : Release(x, rc)
    \/ \E x \in SpIds, rc \in ResultCodes : DestroySavepoint(x, rc)

SpecSavepointScope == Init /\ [][NextSavepointScope]_vars

\* Savepoint to(std::move(from)) in the caller's scope
MoveConstructSavepoint(from, to) ==
    /\ sps[from].alive
    /\ ~sps[to].alive
    /\ \E r \in {Savepoint_move_ctor(conn, sps[from])} :
       /\ conn' = r.e
       /\ sps' = [sps EXCEPT ![to] = r.g, ![from] = r.other]
       /\ last' = ObserveGuard("Savepoint(&&)", to, r, sps[to])
    /\ UNCHANGED <<migrations_, txns, validator, catalog, cell, batch, statements>>

\* to = std::move(from) for two Savepoints
MoveAssignSavepoint(from, to, fault) ==
    /\ sps[from].alive
    /\ sps[to].alive
    /\ IF from = to
       THEN /\ last' = ObserveGuard("Savepoint::operator=", to,
                                    [exc |-> NoException, cmds |-> <<>>], sps[to])
            /\ UNCHANGED <<conn, sps>>
       ELSE \E r \in {Savepoint_move_assign(conn, sps[to], sps[from], fault)} :
            /\ conn' = r.e
            /\ sps' = [sps EXCEPT ![to] = r.g, ![from] = r.other]
            /\ last' = ObserveGuard("Savepoint::operator=", to, r, sps[to])
    /\ UNCHANGED <<migrations_, txns, validator, catalog, cell, batch, statements>>

\* the engine's answers in the specification of the moves
MoveCodes == {SQLITE_OK, SQLITE_ERROR}

\* Transaction and Savepoint guards that are moved between the caller's
\* objects
NextMoves ==
    \/ \E t \in TxnSlots, rc \in MoveCodes : BeginTransaction(t, "DEFERRED", rc)
    \/ \E t \in TxnSlots, rc \in MoveCodes : Commit(t, rc)
    \/ \E t \in TxnSlots, rc \in MoveCodes : DestroyTransaction(t, rc)
    \/ \E from \in TxnSlots, to \in TxnSlots : MoveConstruct(from, to)
    \/ \E from \in TxnSlots, to \in TxnSlots, rc \in MoveCodes :
          MoveAssign(from, to, rc)
    \/ \E t \in TxnSlots, x \in SpIds, rc \in MoveCodes :
          CreateSavepoint(t, x, SpName[x], rc)
    \/ \E x \in SpIds, rc \in MoveCodes : DestroySavepoint(x, rc)
    \/ \E from \in SpIds, to \in SpIds : MoveConstructSavepoint(from, to)
    \/ \E from \in SpIds, to \in SpIds, rc \in MoveCodes :
          MoveAssignSavepoint(from, to, rc)

SpecMoves == Init /\ [][NextMoves]_vars

\* the observation of an operation on a Statement or on the connection
ObserveStatement(op, arg, exc) ==
    ObserveGuard(op, arg, [exc |-> exc, cmds |-> <<>>], NoGuard)

\* finalizing a freed handle is undefined: the process survives it or not
\* (crash), a choice the operations below take when the handle is Dangling

\* auto q = conn.prepare(sql)
Prepare(q, fault) ==
    /\ ~statements.crashed
    /\ ~statements.obj[q].alive
    /\ statements.prepared < MaxHandles
    /\ \E r \in {Statement_ctor(statements, q, fault)} :
       /\ statements' = r.s
       /\ last' = ObserveStatement("prepare", q, r.exc)
    /\ UNCHANGED <<migrations_, conn, txns, sps, validator, catalog, cell, batch>>

\* q leaves its scope
DestroyStatement(q, crash) ==
    /\ ~statements.crashed
    /\ statements.obj[q].alive
    /\ crash => Dangling(statements, q)
    /\ statements' = [Statement_dtor(statements, q) EXCEPT !.crashed = crash]
    /\ last' = ObserveStatement("~Statement", q, NoException)
    /\ UNCHANGED <<migrations_, conn, txns, sps, validator, catalog, cell, batch>>

\* Statement q(std::move(other)) in the caller's scope
MoveConstructStatement(other, q) ==
    /\ ~statements.crashed
    /\ statements.obj[other].alive
    /\ ~statements.obj[q].alive
    /\ statements' = Statement_move_ctor(statements, other, q)
    /\ last' = ObserveStatement("Statement(&&)", q, NoException)
    /\ UNCHANGED <<migrations_, conn, txns, sps, validator, catalog, cell, batch>>

\* q = std::move(other)
MoveAssignStatement(other, q, crash) ==
    /\ ~statements.crashed
    /\ statements.obj[other].alive
    /\ statements.obj[q].alive
    /\ crash => (q # other /\ Dangling(statements, q))
    /\ statements' = [Statement_move_assign(statements, other, q)
                         EXCEPT !.crashed = crash]
    /\ last' = ObserveStatement("Statement::operator=", q, NoException)
    /\ UNCHANGED <<migrations_, conn, txns, sps, validator, catalog, cell, batch>>

\* conn.close(), or the Connection is destroyed
CloseConnection ==
    /\ ~statements.crashed
    /\ statements' = Connection_close(statements)
    /\ last' = ObserveStatement("close", 0, NoException)
    /\ UNCHANGED <<migrations_, conn, txns, sps, validator, catalog, cell, batch>>

\* Statements prepared, moved and destroyed, and the connection closed, in
\* every order
NextStatements ==
    \/ \E q \in StmtIds, rc \in {SQLITE_OK, SQLITE_ERROR} : Prepare(q, rc)
    \/ \E q \in StmtIds, crash \in BOOLEAN : DestroyStatement(q, crash)
    \/ \E other \in StmtIds, q \in StmtIds : MoveConstructStatement(other, q)
    \/ \E other \in StmtIds, q \in StmtIds, crash \in BOOLEAN :
          MoveAssignStatement(other, q, crash)
    \/ CloseConnection

SpecStatements == Init /\ [][NextStatements]_vars

\* the observation of a validator call
ObserveValidator(op, errors) ==
    [NoObservation EXCEPT !.op = op, !.ran = errors]

\* the number of requirements the validator holds
Requirements(v) ==
    Len(v.tableRequirements_) + Len(v.columnRequirements_)
        + Len(v.indexRequirements_)

RequireTable(tableName) ==
    /\ Requirements(validator) < MaxRequirements
    /\ validator' = SchemaValidator_requireTable(validator, tableName)
    /\ last' = ObserveValidator("requireTable", <<>>)
    /\ UNCHANGED <<migrations_, conn, txns, sps, catalog, cell, batch, statements>>

RequireColumn(tableName, columnName, expectedType) ==
    /\ Requirements(validator) < MaxRequirements
    /\ validator' = SchemaValidator_requireColumn(validator, tableName,
                                                  columnName, expectedType)
    /\ last' = ObserveValidator("requireColumn", <<>>)
    /\ UNCHANGED <<migrations_, conn, txns, sps, catalog, cell, batch, statements>>

RequireNotNull(tableName, columnName) ==
    /\ Requirements(validator) < MaxRequirements
    /\ validator' = SchemaValidator_requireNotNull(validator, tableName,
                                                   columnName)
    /\ last' = ObserveValidator("requireNotNull", <<>>)
    /\ UNCHANGED <<migrations_, conn, txns, sps, catalog, cell, batch, statements>>

RequireIndex(tableName, indexName) ==
    /\ Requirements(validator) < MaxRequirements
    /\ validator' = SchemaValidator_requireIndex(validator, tableName, indexName)
    /\ last' = ObserveValidator("requireIndex", <<>>)
    /\ UNCHANGED <<migrations_, conn, txns, sps, catalog, cell, batch, statements>>

\* validate returns its error list (observed in last.ran)
Validate ==
    /\ \E errors \in {SchemaValidator_validate(validator, catalog)} :
          last' = ObserveValidator("validate", errors)
    /\ UNCHANGED <<migrations_, conn, txns, sps, validator, catalog, cell, batch, statements>>

\* validateOrThrow returns or throws (the text of what() observed in last.ran)
ValidateOrThrow ==
    /\ \E r \in {SchemaValidator_validateOrThrow(validator, catalog)} :
          last' = [NoObservation EXCEPT !.op = "validateOrThrow",
                                        !.exc = r.exc, !.ran = r.text]
    /\ UNCHANGED <<migrations_, conn, txns, sps, validator, catalog, cell, batch, statements>>

\* a fresh validator and a connection to any of the schemas
InitValidator ==
    /\ migrations_ = <<>>
    /\ conn = NewEngine
    /\ txns = [t \in TxnSlots |-> NoGuard]
    /\ sps = [x \in SpIds |-> NoGuard]
    /\ last = NoObservation
    /\ validator = NewValidator
    /\ catalog \in Catalogs
    /\ cell = NoCell
    /\ batch = NewBatch
    /\ statements = NoStatements

NextValidator ==
    \/ \E t \in TableNames : RequireTable(t)
    \/ \E p \in ColumnPairs, ty \in ExpectedTypes : RequireColumn(p[1], p[2], ty)
    \/ \E p \in ColumnPairs : RequireNotNull(p[1], p[2])
    \/ \E p \in IndexPairs : RequireIndex(p[1], p[2])
    \/ Validate
    \/ ValidateOrThrow

SpecValidator == InitValidator /\ [][NextValidator]_vars

\* ------------------------------------------------------------------------
\* Properties of the MigrationManager
\* ------------------------------------------------------------------------
CurrentVersion == SelectMaxVersion(conn.db)
LatestVersion == latestVersion(migrations_)
Registered == DOMAIN migrations_
Failed(r) == r.exc.kind # "none"
\* BEGIN, COMMIT once per unit
RECURSIVE CommittedUnits(_)
CommittedUnits(n) ==
    IF n = 0 THEN <<>> ELSE <<Sql("BEGIN", "DEFERRED"), Sql("COMMIT", "")>> \o CommittedUnits(n - 1)

\* C1: when apply(conn) returns without error, currentVersion(conn) equals
\* latestVersion() and every registered version has a bookkeeping record.
C1_ApplyRecordsEveryRegisteredVersion ==
    (last.op = "apply" /\ ~Failed(last))
        => /\ CurrentVersion = LatestVersion
           /\ \A v \in Registered : v \in conn.db.records

\* the half of C1 the code keeps: after a successful apply the current
\* version is the latest one and every unit above the version the call
\* started from is recorded
C1_ApplyReachesLatest ==
    (last.op = "apply" /\ ~Failed(last))
        => /\ CurrentVersion = LatestVersion
           /\ Range(last.ran) \subseteq conn.db.records

\* C2 as claimed: when the up procedure or the bookkeeping insert of unit v
\* fails during applyTo, the unit's transaction is rolled back (neither the
\* effect of up(v) nor a record of v is left), the earlier units of the call
\* stay applied, a MigrationException for v is raised and no later up runs.
C2_FailedUnitIsRolledBack ==
    (last.op = "applyTo" /\ last.stage \in {"procedure", "record"})
        => LET v == last.exc.version IN
           /\ last.exc.kind = "MigrationException"
           /\ v = last.ran[Len(last.ran)]
           /\ \A u \in Range(last.ran) : u <= v
           /\ ~conn.inTxn
           /\ v \notin conn.db.records
           /\ v \notin conn.db.schema
           /\ \A u \in Range(last.ran) \ {v} :
                u \in conn.db.records /\ u \in conn.db.schema

\* C2 amended: as claimed when the guard's implicit ROLLBACK succeeds; when
\* the engine refuses it the failure is swallowed and the unit's transaction
\* stays open with its changes, the earlier units being committed all the same
C2_FailedUnitIsRolledBackIfRollbackSucceeds ==
    \A k \in Targets, p \in Plans :
        LET r == applyTo(conn, migrations_, k, p)
            todo == ToApply(migrations_, CurrentVersion, k)
            v == r.exc.version
            earlier == {u \in Range(todo) : u < v}
        IN r.stage \in {"procedure", "record"}
            => /\ r.exc.kind = "MigrationException"
               /\ v \in Range(todo)
               /\ r.ran = SortAscending(earlier \cup {v})
               /\ r.cmds = CommittedUnits(Cardinality(earlier))
                              \o <<Sql("BEGIN", "DEFERRED"), Sql("ROLLBACK", "")>>
               /\ r.e.base.records = conn.db.records \cup earlier
               /\ r.e.base.schema = conn.db.schema \cup earlier
               /\ p.cleanup = SQLITE_OK => (~r.e.inTxn /\ r.e.db = r.e.base)
               /\ p.cleanup # SQLITE_OK => r.e.inTxn

C2_Witness ==
    /\ last.op = "applyTo"
    /\ last.stage \in {"procedure", "record"}
    /\ last.cleanup = SQLITE_OK
    /\ Len(last.ran) >= 2
    /\ ~conn.inTxn

\* C3: after a successful applyTo(conn, K) that started at currentVersion <= K,
\* a successful applyTo(conn, latestVersion()) runs the up procedures of
\* exactly the registered versions > K, each once, in ascending order.
C3_SecondApplyRunsExactlyTheUnitsAboveK ==
    (last.op = "applyTo" /\ ~Failed(last) /\ CurrentVersion <= last.arg)
        => \A p \in Plans :
             LET r == applyTo(conn, migrations_, LatestVersion, p) IN
             ~Failed(r)
                => r.ran = SortAscending({v \in Registered : v > last.arg})

C3_Witness ==
    /\ last.op = "applyTo"
    /\ ~Failed(last)
    /\ last.arg = LatestVersion
    /\ last.prevK # NoK
    /\ \E v \in Registered : v <= last.prevK
    /\ last.prevK < last.arg
    /\ Len(last.ran) >= 1

\* C4: rollbackTo(conn, T) with T < currentVersion, every unit in (T, current]
\* having a down procedure and nothing failing, succeeds; it runs the down
\* procedures and deletes the records of the versions > T in strictly
\* descending order, one committed transaction per unit, leaves the records
\* of the versions <= T untouched and ends with currentVersion <= T.
C4_RollbackToDescending ==
    \A T \in Targets, p \in Plans :
        LET r == rollbackTo(conn, migrations_, T, p)
            units == {v \in Registered : v > T /\ v <= CurrentVersion}
        IN T < CurrentVersion
            => /\ ( /\ \A v \in units : migrations_[v].hasDown
                    /\ p = NoFaults
                    /\ ~conn.inTxn ) => ~Failed(r)
               /\ ~Failed(r)
                    => /\ r.ran = SortDescending(units)
                       /\ \A i \in 1..(Len(r.ran) - 1) : r.ran[i] > r.ran[i + 1]
                       /\ r.cmds = CommittedUnits(Len(r.ran))
                       /\ r.e.db.records = {v \in conn.db.records : v <= T}
                       /\ r.e.db.schema = conn.db.schema \ units
                       /\ SelectMaxVersion(r.e.db) <= T
                       /\ ~r.e.inTxn

C4_Witness ==
    /\ last.op = "rollbackTo"
    /\ ~Failed(last)
    /\ Len(last.ran) >= 2
    /\ CurrentVersion <= last.arg

\* the case of C5: rollbackTo(conn, T) comes to unit v, the highest unit of
\* (T, current] without a down procedure, nothing having failed before
ReachesUnitWithoutDown(T, p, v) ==
    /\ T < CurrentVersion
    /\ v \in Registered /\ v > T /\ v <= CurrentVersion
    /\ ~migrations_[v].hasDown
    /\ \A u \in Registered : (u > v /\ u <= CurrentVersion) => migrations_[u].hasDown
    /\ ~conn.inTxn
    /\ p.stage = "none" \/ (p.stage # "ensure" /\ p.at <= v)

\* C5 as claimed: on reaching a unit v without a down procedure rollbackTo
\* fails at once with a MigrationException for v, runs no down procedure below
\* v, keeps the record of v, and the records of the higher versions already
\* processed in the call are intact.  (rollbackTo inserts no record, so the
\* records found after the call were there before it.)
C5_MissingDownKeepsHigherRecords ==
    (last.op = "rollbackTo" /\ last.stage = "down missing")
        => /\ last.exc.kind = "MigrationException"
           /\ \A u \in Range(last.ran) : u > last.exc.version
           /\ \A u \in Range(last.ran) : u \in conn.db.records

\* C5 amended: ... and the higher versions already processed in the call stay
\* rolled back: their down procedures ran, their records are deleted and
\* committed, and nothing restores them; the records of v and of the versions
\* below v are intact.
C5_MissingDownKeepsHigherRolledBack ==
    \A T \in Targets, p \in Plans, v \in Versions :
        LET r == rollbackTo(conn, migrations_, T, p)
            higher == {u \in Registered : u > v /\ u <= CurrentVersion}
        IN ReachesUnitWithoutDown(T, p, v)
            => /\ r.exc = MigrationException("Migration has no rollback function", v)
               /\ r.ran = SortDescending(higher)
               /\ \A u \in Range(r.ran) : u > v
               /\ r.cmds = CommittedUnits(Cardinality(higher))
               /\ v \in conn.db.records => v \in r.e.db.records
               /\ {u \in r.e.db.records : u <= v} = {u \in conn.db.records : u <= v}
               /\ \A u \in higher : u \notin r.e.db.records
               /\ r.e.db.schema = conn.db.schema \ higher
               /\ r.e.base = r.e.db

C5_Witness ==
    /\ last.op = "rollbackTo"
    /\ last.stage = "down missing"
    /\ Len(last.ran) >= 1
    /\ last.exc.version \in conn.db.records
    /\ last.arg < last.exc.version

\* C6: every failure while applyTo or rollbackTo processes a unit (beginning
\* its transaction, its procedure, its bookkeeping statement, its commit)
\* reaches the caller as a MigrationException carrying the unit's version.
C6_UnitFailuresAreMigrationExceptions ==
    (/\ last.op \in {"applyTo", "apply", "rollbackTo"}
     /\ last.stage \in {"begin", "procedure", "record", "commit"})
        => last.exc.kind = "MigrationException"

\* the part of C6 the code keeps: failures of the procedure, the bookkeeping
\* statement and the commit carry the unit's version
C6_BodyFailuresAreMigrationExceptions ==
    (/\ last.op \in {"applyTo", "apply", "rollbackTo"}
     /\ last.stage \in {"procedure", "record", "commit"})
        => /\ last.exc.kind = "MigrationException"
           /\ last.exc.version = last.ran[Len(last.ran)]

\* C7: add(version, ...) fails with a MigrationException when version <= 0 or
\* the version is registered already, leaving the registered set as it was
\* (the earlier unit is kept); otherwise the unit is stored, and
\* latestVersion() is the maximum registered version.
C7_AddRejectsInvalidAndDuplicate ==
    \A v \in AddVersions, u \in Units :
        LET r == MigrationManager_add(migrations_, v, u) IN
        /\ (v <= 0 \/ v \in Registered)
            => /\ r.exc.kind = "MigrationException"
               /\ r.exc.version = v
               /\ r.m = migrations_
        /\ ~(v <= 0 \/ v \in Registered)
            => /\ r.exc.kind = "none"
               /\ DOMAIN r.m = Registered \cup {v}
               /\ r.m[v] = u
               /\ \A w \in Registered : r.m[w] = migrations_[w]
        /\ \A w \in DOMAIN r.m : w <= latestVersion(r.m)
        /\ DOMAIN r.m # {} => latestVersion(r.m) \in DOMAIN r.m
        /\ DOMAIN r.m = {} => latestVersion(r.m) = 0

C7_Witness ==
    /\ last.op = "add"
    /\ last.exc.kind = "MigrationException"
    /\ last.arg \in Registered
    /\ \E w \in Registered : w > last.arg

\* ------------------------------------------------------------------------
\* Properties of the Transaction and Savepoint guards
\* ------------------------------------------------------------------------
\* C8 (as stated): when a Transaction that is still Active is destroyed, a
\* ROLLBACK is issued and none of the changes made since its BEGIN are
\* visible afterwards.
C8_DestroyedActiveTransactionLeavesNoChange ==
    (last.op = "~Transaction" /\ last.g0.active_)
        => /\ last.cmds = <<Sql("ROLLBACK", "")>>
           /\ conn.db = last.g0.atBegin

\* C8 (amended): when a Transaction that is still Active is destroyed, a
\* ROLLBACK is issued and no error reaches the caller; when the engine
\* carries the ROLLBACK out, the changes made since BEGIN are gone and the
\* transaction is closed; when the engine refuses it, the refusal is
\* swallowed and the connection is left as it was, the transaction open and
\* its changes visible.
C8_DestroyedActiveTransactionRollsBackIfEngineDoes ==
    \A t \in TxnIds, rc \in ResultCodes :
        (txns[t].alive /\ txns[t].active_)
            => LET r == Transaction_dtor(conn, txns[t], rc) IN
               /\ r.cmds = <<Sql("ROLLBACK", "")>>
               /\ r.exc = NoException
               /\ ~r.g.alive
               /\ (rc = SQLITE_OK /\ conn.inTxn)
                      => (r.e.db = txns[t].atBegin /\ ~r.e.inTxn)
               /\ (rc # SQLITE_OK \/ ~conn.inTxn) => r.e = conn

\* an Active Transaction with changes since its BEGIN was destroyed, and the
\* changes are gone
C8_Witness ==
    /\ last.op = "~Transaction"
    /\ last.g0.active_
    /\ last.cmds = <<Sql("ROLLBACK", "")>>
    /\ conn.db = last.g0.atBegin
    /\ ~conn.inTxn
    /\ \E t \in TxnIds : ~txns[t].alive

\* C9: when a Savepoint that is still Active is destroyed, RELEASE SAVEPOINT
\* of its name is issued, not ROLLBACK TO: whatever the engine answers, no
\* error reaches the caller and every change made since the savepoint stays
\* visible in the enclosing transaction, and a COMMIT of that transaction
\* makes those changes durable.
C9_DestroyedActiveSavepointReleases ==
    \A x \in SpIds, rc \in ResultCodes :
        (sps[x].alive /\ sps[x].active_)
            => LET r == Savepoint_dtor(conn, sps[x], rc)
                   c == Connection_execute(r.e, Sql("COMMIT", ""), SQLITE_OK)
               IN /\ r.cmds = <<Sql("RELEASE SAVEPOINT", sps[x].name_)>>
                  /\ r.exc = NoException
                  /\ ~r.g.alive
                  /\ r.e.db = conn.db
                  /\ r.e.inTxn
                        => /\ c.exc = NoException
                           /\ c.e.db = conn.db
                           /\ c.e.base = conn.db

\* an Active Savepoint was destroyed inside an open transaction and the
\* change made after the savepoint was taken is still visible
C9_Witness ==
    /\ last.op = "~Savepoint"
    /\ last.g0.active_
    /\ last.cmds = <<Sql("RELEASE SAVEPOINT", last.g0.name_)>>
    /\ conn.inTxn
    /\ conn.db.rows # last.g0.atBegin.rows
    /\ \E t \in TxnIds : txns[t].alive /\ txns[t].active_

\* C10: commit() and rollback() on a Transaction that has ended, and
\* release() and rollback() on a Savepoint that has ended, fail with a
\* TransactionException "... already ended"; no command is issued and the
\* guard and the connection are left as they were.
C10_EndedGuardsRefuse ==
    /\ \A t \in TxnIds, rc \in ResultCodes :
          (txns[t].alive /\ ~txns[t].active_)
              => \A r \in {Transaction_commit(conn, txns[t], rc),
                           Transaction_rollback(conn, txns[t], rc)} :
                    /\ r.exc = TransactionException("Transaction already ended", 0)
                    /\ r.cmds = <<>>
                    /\ r.g = txns[t]
                    /\ r.e = conn
    /\ \A x \in SpIds, rc1 \in ResultCodes, rc2 \in ResultCodes :
          (sps[x].alive /\ ~sps[x].active_)
              => \A r \in {Savepoint_release(conn, sps[x], rc1),
                           Savepoint_rollback(conn, sps[x], rc1, rc2)} :
                    /\ r.exc = TransactionException("Savepoint already ended", 0)
                    /\ r.cmds = <<>>
                    /\ r.g = sps[x]
                    /\ r.e = conn

\* commit() was called on a Transaction that had been committed or rolled
\* back, while an ended Savepoint is still in scope
C10_Witness ==
    /\ last.op \in {"commit", "rollback"}
    /\ last.g0.alive /\ ~last.g0.active_
    /\ last.exc.kind = "TransactionException"
    /\ last.exc.msg = "Transaction already ended"
    /\ last.cmds = <<>>
    /\ \E x \in SpIds : sps[x].alive /\ ~sps[x].active_

\* C11 (as stated): a Transaction's active_ goes from true to false at most
\* once and never back to true: whatever is called on a Transaction whose
\* active_ is false, it is not Active afterwards.
C11_ActiveFlagNeverReturnsToTrue ==
    (last.op \in {"commit", "rollback", "operator="}
        /\ last.g0.alive /\ ~last.g0.active_)
        => ~txns[last.arg].active_

\* the end commands the engine carries out for the transaction that guard t
\* holds, when t is destroyed now and the engine answers rc
C11_LifetimeCount(t, rc) ==
    txns[t].ends
    + (IF Transaction_dtor(conn, txns[t], rc).cmds # <<>>
          /\ sqlite3_exec(conn, Sql("ROLLBACK", ""), rc).rc = SQLITE_OK
       THEN 1 ELSE 0)

C11_EndedOnce ==
    \A t \in TxnSlots, rc \in ResultCodes :
        txns[t].alive
            => /\ txns[t].active_ => (txns[t].conn_ /\ txns[t].ends = 0)
               /\ (~txns[t].active_ /\ txns[t].conn_) => (txns[t].ends = 1)
               /\ ~txns[t].active_
                     => /\ Transaction_dtor(conn, txns[t], rc).cmds = <<>>
                        /\ Transaction_commit(conn, txns[t], rc).cmds = <<>>
                        /\ Transaction_rollback(conn, txns[t], rc).cmds = <<>>
               /\ C11_LifetimeCount(t, rc) <= 1
               /\ (rc = SQLITE_OK /\ txns[t].conn_)
                     => (C11_LifetimeCount(t, rc) = 1)

C11_ActiveFlagReturnsOnlyByMoveAssignment ==
    \A t \in TxnSlots :
        (txns[t].alive /\ ~txns[t].active_ /\ txns'[t].alive /\ txns'[t].active_)
            => /\ last'.op = "operator="
               /\ last'.arg = t
               /\ \E u \in TxnSlots \ {t} :
                     /\ txns[u].active_
                     /\ txns'[u] = MovedFrom(txns[u])
                     /\ txns'[t] = txns[u]

\* C11 (amended): while a Transaction object lives, its active_ returns from
\* false to true only when an Active guard is move-assigned onto it, which
\* hands it that guard's open transaction; once active_ is false no commit,
\* rollback or destruction of the guard issues an engine command; and for
\* every successful BEGIN the engine carries out at most one COMMIT or
\* ROLLBACK of the guards that hold the transaction, exactly one when the
\* last command issued for it is accepted.
C11_ActiveOnceThenEnded ==
    []C11_EndedOnce /\ [][C11_ActiveFlagReturnsOnlyByMoveAssignment]_vars

\* a Transaction that had been committed or rolled back was destroyed: the
\* engine had carried out one end command and the destructor issued none
C11_Witness ==
    /\ last.op = "~Transaction"
    /\ last.g0.alive /\ ~last.g0.active_
    /\ last.g0.ends = 1
    /\ last.cmds = <<>>
    /\ ~conn.inTxn

\* C12 (as stated, for the case it names): an engine failure of the COMMIT
\* issued by commit() reaches the caller as a TransactionException carrying
\* the engine's code, whatever the kind of engine error, a constraint
\* violation included.
C12_CommitFailuresAreTransactionExceptions ==
    (last.op = "commit" /\ last.cmds # <<>> /\ last.exc.kind # "none")
        => /\ last.exc.kind = "TransactionException"
           /\ last.exc.code \in FaultCodes

\* C12 (what the code does): a refusal whose base code is not
\* SQLITE_CONSTRAINT reaches the caller as a TransactionException with the
\* engine's code; a refusal with base code SQLITE_CONSTRAINT reaches the
\* caller as a ConstraintException with that code.
C12_Translated(exc, rc) ==
    IF rc % 256 = SQLITE_CONSTRAINT
    THEN exc.kind = "ConstraintException" /\ exc.code = rc
    ELSE exc.kind = "TransactionException" /\ exc.code = rc

C12_OnlyQueryFailuresAreTranslated ==
    \A rc \in FaultCodes :
        /\ C12_Translated(Transaction_ctor(conn, "DEFERRED", rc).exc, rc)
        /\ \A t \in TxnIds :
              (txns[t].alive /\ txns[t].active_)
                  => /\ C12_Translated(Transaction_commit(conn, txns[t], rc).exc, rc)
                     /\ C12_Translated(Transaction_rollback(conn, txns[t], rc).exc, rc)
                     /\ \A x \in SpIds :
                           C12_Translated(
                               Transaction_savepoint(conn, txns[t], SpName[x], rc).exc, rc)
        /\ \A x \in SpIds :
              (sps[x].alive /\ sps[x].active_)
                  => /\ C12_Translated(Savepoint_release(conn, sps[x], rc).exc, rc)
                     /\ C12_Translated(
                            Savepoint_rollback(conn, sps[x], rc, SQLITE_OK).exc, rc)

\* C13: the destruction of a guard never raises: whatever the engine answers
\* to the implicit ROLLBACK of ~Transaction or to the implicit RELEASE of
\* ~Savepoint, the destructor completes, the guard is gone and no exception
\* reaches the caller.
C13_DestructorsNeverRaise ==
    \A rc \in ResultCodes :
        /\ \A t \in TxnIds :
              txns[t].alive
                  => /\ Transaction_dtor(conn, txns[t], rc).exc = NoException
                     /\ Transaction_dtor(conn, txns[t], rc).g = NoGuard
        /\ \A x \in SpIds :
              sps[x].alive
                  => /\ Savepoint_dtor(conn, sps[x], rc).exc = NoException
                     /\ Savepoint_dtor(conn, sps[x], rc).g = NoGuard

\* an Active Transaction was destroyed, the engine refused its ROLLBACK (the
\* transaction is still open) and nothing was raised
C13_Witness ==
    /\ last.op = "~Transaction"
    /\ last.g0.active_
    /\ last.cmds = <<Sql("ROLLBACK", "")>>
    /\ conn.inTxn
    /\ last.exc = NoException
    /\ \A t \in TxnIds : ~txns[t].alive

\* C14: savepoint(name) on a Transaction that is not Active (committed,
\* rolled back or moved-from) fails with TransactionException "Cannot create
\* savepoint: transaction not active"; no SAVEPOINT command reaches the
\* engine, no Savepoint guard is made and the connection is as it was.
C14_SavepointNeedsActiveTransaction ==
    \A t \in TxnSlots, x \in SpIds, rc \in ResultCodes :
        (txns[t].alive /\ ~txns[t].active_)
            => LET r == Transaction_savepoint(conn, txns[t], SpName[x], rc) IN
               /\ r.exc = TransactionException(
                              "Cannot create savepoint: transaction not active", 0)
               /\ r.cmds = <<>>
               /\ r.g = NoGuard
               /\ r.e = conn

\* savepoint() was called on a moved-from Transaction while the transaction
\* it had begun is still open under another guard
C14_Witness ==
    /\ last.op = "savepoint"
    /\ last.g0.alive /\ ~last.g0.active_ /\ ~last.g0.conn_
    /\ last.exc.kind = "TransactionException"
    /\ last.cmds = <<>>
    /\ conn.inTxn
    /\ conn.savepoints = <<>>
    /\ \E t \in TxnSlots : txns[t].active_

\* the Transaction guards that are Active
ActiveTransactions == {t \in TxnSlots : txns[t].alive /\ txns[t].active_}

C15_SecondBeginRefused ==
    /\ Cardinality(ActiveTransactions) <= 1
    /\ \A t \in ActiveTransactions, rc \in ResultCodes :
          LET r == Transaction_ctor(conn, "DEFERRED", rc) IN
          /\ r.exc.kind # "none"
          /\ ~r.g.alive
          /\ r.e = conn
          /\ conn.inTxn
          /\ (rc = SQLITE_OK)
                => r.exc = TransactionException("Failed to begin transaction",
                                                SQLITE_ERROR)

C15_FailedBeginLeavesGuards ==
    (last'.op = "Transaction" /\ last'.exc.kind # "none")
        => /\ conn' = conn
           /\ \A t \in ActiveTransactions : txns'[t] = txns[t]

\* C15: while a Transaction is Active on the connection, constructing a
\* second Transaction fails (the engine rejects the nested BEGIN, which
\* reaches the caller as a TransactionException); the connection, the open
\* transaction's uncommitted changes and the first guard are left as they
\* were; and at no time are two Transaction guards Active.
C15_OneActiveTransaction ==
    []C15_SecondBeginRefused /\ [][C15_FailedBeginLeavesGuards]_vars

\* a second Transaction was refused while the first is Active with an
\* uncommitted change
C15_Witness ==
    /\ last.op = "Transaction"
    /\ last.exc = TransactionException("Failed to begin transaction", SQLITE_ERROR)
    /\ ~txns[last.arg].alive
    /\ \E t \in ActiveTransactions : conn.db # txns[t].atBegin
    /\ conn.inTxn

\* C16 (as stated): for every engine result code whose base code (r mod 256)
\* is SQLITE_CONSTRAINT, the plain code and the extended ones, both
\* Connection::execute and Statement::execute raise ConstraintException and
\* not QueryException.
C16_ConstraintCodesRaiseConstraintException ==
    (last.op \in {"execute", "Statement::execute"}
        /\ last.exc.kind # "none"
        /\ last.exc.code % 256 = SQLITE_CONSTRAINT)
        => last.exc.kind = "ConstraintException"

\* C16 (what the code does): Connection::execute raises ConstraintException
\* exactly for the codes whose base code is SQLITE_CONSTRAINT;
\* Statement::execute raises it only for the plain code SQLITE_CONSTRAINT and
\* QueryException for every extended constraint code.
C16_OnlyConnectionExecuteMasksTheCode ==
    \A r \in Rows, rc \in ExtendedCodes :
        /\ Connection_execute(conn, Sql("INSERT", r), rc).exc
              = (IF rc % 256 = SQLITE_CONSTRAINT THEN ConstraintException(rc)
                 ELSE QueryException(rc))
        /\ Statement_execute(conn, Sql("INSERT", r), rc).exc
              = (IF rc = SQLITE_CONSTRAINT THEN ConstraintException(rc)
                 ELSE QueryException(rc))

\* the engine holds a savepoint of the guard's name
OnEngine(g) == FindSavepoint(conn.savepoints, g.name_, Len(conn.savepoints)) # 0

\* what Savepoint::rollback does to the connection, for every engine answer
\* (part of C17) ROLLBACK TO SAVEPOINT name
\* and then RELEASE SAVEPOINT name.  When the engine carries both out the
\* call succeeds: the connection reads what it read when the savepoint was
\* taken (changes made after it are discarded, changes made before it in the
\* transaction are kept, still uncommitted), the savepoint is inactive and
\* the enclosing transaction is still open.  The call succeeds in no other
\* case.
C17_RollbackToThenRelease ==
    \A x \in SpIds, rc1 \in ResultCodes, rc2 \in ResultCodes :
        (sps[x].alive /\ sps[x].active_)
            => LET r == Savepoint_rollback(conn, sps[x], rc1, rc2)
                   to == Sql("ROLLBACK TO SAVEPOINT", sps[x].name_)
                   rel == Sql("RELEASE SAVEPOINT", sps[x].name_)
               IN /\ r.cmds \in {<<to>>, <<to, rel>>}
                  /\ (r.exc = NoException)
                        <=> (rc1 = SQLITE_OK /\ rc2 = SQLITE_OK /\ OnEngine(sps[x]))
                  /\ (r.exc = NoException)
                        => /\ r.cmds = <<to, rel>>
                           /\ r.e.db = sps[x].atBegin
                           /\ r.e.base = conn.base
                           /\ r.e.inTxn
                           /\ r.g.alive /\ ~r.g.active_
                           /\ ~OnEngine(sps[x]) \/ Len(r.e.savepoints) < Len(conn.savepoints)

\* a step of Savepoint::rollback leaves every Transaction guard as it was
\* (part of C17)
C17_TransactionStaysActive ==
    (last'.op = "Savepoint::rollback" /\ last' # last) => txns' = txns

RECURSIVE Flatten(_)
Flatten(ss) == IF ss = <<>> THEN <<>> ELSE Head(ss) \o Flatten(Tail(ss))

TypesOf(errors) == [n \in DOMAIN errors |-> errors[n].type]

\* validators holding one requirement
OnlyTable(req) == [NewValidator EXCEPT !.tableRequirements_ = <<req>>]
OnlyColumn(req) == [NewValidator EXCEPT !.columnRequirements_ = <<req>>]
OnlyIndex(req) == [NewValidator EXCEPT !.indexRequirements_ = <<req>>]

\* tables 1, columns 2, indexes 3
ErrorGroup(type) ==
    CASE type = "missing_table" -> 1
      [] type \in {"missing_column", "wrong_type", "nullable"} -> 2
      [] type = "missing_index" -> 3

\* the validator and the schema of TEST(schema_validator_fail)
FailValidator ==
    [tableRequirements_ |-> <<[name |-> "users"], [name |-> "posts"]>>,
     columnRequirements_ |-> <<[tableName |-> "users", columnName |-> "name",
                                expectedType |-> TEXT,
                                requireNotNull |-> FALSE]>>,
     indexRequirements_ |-> <<>>]
FailCatalog == The({c \in Catalogs : c.info["users"] = UsersId})

\* C18: the list validate returns is the errors of each table requirement
\* taken alone, then those of each column requirement, then those of each
\* index requirement, each group in insertion order (no requirement is
\* skipped after a failure); requiring tables users and posts and column
\* users.name of a schema holding only users(id) returns exactly
\* [missing_table, missing_column].
C18_ErrorsByGroupInRequirementOrder ==
    last.op = "validate"
        => /\ last.ran =
                Flatten([i \in DOMAIN validator.tableRequirements_ |->
                    SchemaValidator_validate(
                        OnlyTable(validator.tableRequirements_[i]), catalog)])
                \o Flatten([i \in DOMAIN validator.columnRequirements_ |->
                    SchemaValidator_validate(
                        OnlyColumn(validator.columnRequirements_[i]), catalog)])
                \o Flatten([i \in DOMAIN validator.indexRequirements_ |->
                    SchemaValidator_validate(
                        OnlyIndex(validator.indexRequirements_[i]), catalog)])
           /\ \A m \in DOMAIN last.ran, n \in DOMAIN last.ran :
                 m < n => ErrorGroup(last.ran[m].type)
                              <= ErrorGroup(last.ran[n].type)
           /\ (validator = FailValidator /\ catalog = FailCatalog)
                 => TypesOf(last.ran) = <<"missing_table", "missing_column">>

\* validate has run the requirements of TEST(schema_validator_fail) against
\* its schema
C18_Witness ==
    /\ last.op = "validate"
    /\ validator = FailValidator
    /\ catalog = FailCatalog
    /\ Len(last.ran) = 2
    /\ last.ran[1].message = <<"Required table '", "posts", "' does not exist">>

\* the same letter, in either case
CasePairs == {{"t", "T"}, {"e", "E"}, {"x", "X"}, {"i", "I"}, {"n", "N"}}
SameLetter(a, b) == a = b \/ {a, b} \in CasePairs

\* needle occurs in hay when case is ignored
ContainsIgnoringCase(hay, needle) ==
    \E pos \in 0..(Len(hay) - Len(needle)) :
        \A k \in 1..Len(needle) : SameLetter(hay[pos + k], needle[k])

\* the rows of the column in the table's column catalog
RowsOf(tableName, columnName) ==
    {row \in {catalog.info[tableName][k] : k \in DOMAIN catalog.info[tableName]} :
        row.name = columnName}

\* C19: what validate emits for one requirement.  "missing_table" exactly
\* when the catalog holds no table of the name; for a column requirement
\* "missing_column", and nothing else, exactly when the column is not in the
\* table's column catalog, otherwise "wrong_type" exactly when an expected
\* type is given and the declared type does not contain it with case
\* ignored, followed by "nullable" exactly when not-null is required and the
\* catalog does not mark the column not-null; "missing_index" exactly when
\* the catalog holds no index of the name on the table.
C19_ErrorsOfOneRequirement ==
    /\ \A i \in DOMAIN validator.tableRequirements_ :
          LET req == validator.tableRequirements_[i]
          IN TypesOf(SchemaValidator_validate(OnlyTable(req), catalog))
               = IF \E row \in catalog.master :
                        row.type = "table" /\ row.name = req.name
                 THEN <<>> ELSE <<"missing_table">>
    /\ \A i \in DOMAIN validator.columnRequirements_ :
          LET req == validator.columnRequirements_[i]
              rows == RowsOf(req.tableName, req.columnName)
          IN TypesOf(SchemaValidator_validate(OnlyColumn(req), catalog))
               = IF rows = {} THEN <<"missing_column">>
                 ELSE (IF req.expectedType # <<>>
                          /\ \A row \in rows :
                                ~ContainsIgnoringCase(row.type, req.expectedType)
                       THEN <<"wrong_type">> ELSE <<>>)
                      \o (IF req.requireNotNull /\ \A row \in rows : ~row.notnull
                          THEN <<"nullable">> ELSE <<>>)
    /\ \A i \in DOMAIN validator.indexRequirements_ :
          LET req == validator.indexRequirements_[i]
          IN TypesOf(SchemaValidator_validate(OnlyIndex(req), catalog))
               = IF \E row \in catalog.master :
                        /\ row.type = "index"
                        /\ row.tbl_name = req.tableName
                        /\ row.name = req.indexName
                 THEN <<>> ELSE <<"missing_index">>

\* validate has run one column requirement whose type differs in more than
\* case and whose column is nullable: both errors, in that order
C19_Witness ==
    /\ last.op = "validate"
    /\ Len(validator.columnRequirements_) = 1
    /\ validator.columnRequirements_[1].expectedType = TEXT
    /\ validator.columnRequirements_[1].requireNotNull
    /\ TypesOf(last.ran) = <<"wrong_type", "nullable">>

\* validate has accepted an expected type that differs from the declared one
\* in case only, and one that is a proper part of the declared one
C19_WitnessIgnoringCase ==
    /\ last.op = "validate"
    /\ last.ran = <<>>
    /\ \E i \in DOMAIN validator.columnRequirements_ :
          LET req == validator.columnRequirements_[i]
          IN /\ req.expectedType # <<>>
             /\ \E row \in RowsOf(req.tableName, req.columnName) :
                   /\ find(row.type, req.expectedType, 0) = npos
                   /\ Len(row.type) > Len(req.expectedType)

\* the requirements the validator holds for a (table, column) pair
RequirementsOf(v, p) ==
    {i \in DOMAIN v.columnRequirements_ :
        /\ v.columnRequirements_[i].tableName = p[1]
        /\ v.columnRequirements_[i].columnName = p[2]}

\* requireNotNull adds a requirement only for a pair that has none (holds)
C20_NotNullMergesIntoExistingRequirement ==
    \A p \in ColumnPairs :
        LET v == SchemaValidator_requireNotNull(validator, p[1], p[2])
        IN /\ RequirementsOf(validator, p) # {}
                => Len(v.columnRequirements_) = Len(validator.columnRequirements_)
           /\ \E i \in RequirementsOf(v, p) : v.columnRequirements_[i].requireNotNull

\* C20: a (table, column) pair whose not-null was required has a single
\* column requirement, whatever the order of requireColumn and
\* requireNotNull, and validate reports a missing column of the pair once.
C20_OneRequirementPerPair ==
    last.op = "validate"
        => \A p \in ColumnPairs :
              (\E i \in RequirementsOf(validator, p) :
                    validator.columnRequirements_[i].requireNotNull)
                 => /\ Cardinality(RequirementsOf(validator, p)) = 1
                    /\ Cardinality({n \in DOMAIN last.ran :
                          /\ last.ran[n].type = "missing_column"
                          /\ last.ran[n].message[2] = p[1]
                          /\ last.ran[n].message[4] = p[2]}) <= 1

\* the messages occur in the text one after the other, from position from on
RECURSIVE ContainsInOrder(_, _, _)
ContainsInOrder(txt, msgs, from) ==
    IF msgs = <<>> THEN TRUE
    ELSE \E pos \in from..(Len(txt) - Len(Head(msgs)) + 1) :
            /\ SubSeq(txt, pos, pos + Len(Head(msgs)) - 1) = Head(msgs)
            /\ ContainsInOrder(txt, Tail(msgs), pos + Len(Head(msgs)))

\* C21: validateOrThrow throws SchemaException exactly when validate returns
\* a non-empty list, the text of the exception then contains the message of
\* every error of the list, in the order of the list; it returns normally
\* when the list is empty.
C21_ThrowsExactlyOnErrors ==
    last.op = "validateOrThrow"
        => LET errors == SchemaValidator_validate(validator, catalog)
           IN /\ (last.exc = SchemaException) <=> (errors # <<>>)
              /\ (last.exc = NoException) <=> (errors = <<>>)
              /\ ContainsInOrder(last.ran,
                                 [n \in DOMAIN errors |-> errors[n].message], 1)

\* validateOrThrow has thrown for a validator with two different errors
C21_Witness ==
    /\ last.op = "validateOrThrow"
    /\ last.exc = SchemaException
    /\ Len(SchemaValidator_validate(validator, catalog)) = 2
    /\ SchemaValidator_validate(validator, catalog)[1]
          # SchemaValidator_validate(validator, catalog)[2]

\* ------------------------------------------------------------------------
\* MigrationManager queries
\* ------------------------------------------------------------------------

\* C22: currentVersion returns the greatest version with a bookkeeping
\* record, 0 when there is none, and leaves the bookkeeping table in
\* existence; it adds, removes and changes no record (nor anything else the
\* connection reads), so a second call returns the same value and changes
\* nothing at all.  When the engine refuses to create the table the call
\* throws and the connection is as before.
C22_CurrentVersionIsMaxRecord ==
    /\ LET r == currentVersion(conn, SQLITE_OK)
           again == currentVersion(r.e, SQLITE_OK)
       IN /\ r.exc = NoException
          /\ \/ conn.db.records = {} /\ r.value = 0
             \/ /\ r.value \in conn.db.records
                /\ \A v \in conn.db.records : v <= r.value
          /\ r.e.db = [conn.db EXCEPT !.table = TRUE]
          /\ r.e.inTxn = conn.inTxn
          /\ again.value = r.value
          /\ again.e = r.e
    /\ \A rc \in FaultCodes :
          LET r == currentVersion(conn, rc)
          IN r.exc # NoException /\ r.e = conn
    /\ (last.op = "currentVersion" /\ last.exc = NoException)
          => /\ conn.db.table
             /\ last.arg = IF conn.db.records = {} THEN 0
                           ELSE MaxOf(conn.db.records)

\* currentVersion has returned the version of the higher of two records
C22_Witness ==
    /\ last.op = "currentVersion"
    /\ last.exc = NoException
    /\ Cardinality(conn.db.records) > 1
    /\ last.arg = MaxOf(conn.db.records)

\* currentVersion has created the bookkeeping table and returned 0
C22_WitnessEmpty ==
    /\ last.op = "currentVersion"
    /\ last.exc = NoException
    /\ conn.db.table
    /\ conn.db.records = {}
    /\ last.arg = 0

\* what pending returns, for every engine answer (part of C23)
C23_PendingAreTheUnitsAboveCurrent ==
    /\ LET r == pending(conn, migrations_, SQLITE_OK)
           current == IF conn.db.records = {} THEN 0 ELSE MaxOf(conn.db.records)
       IN /\ r.exc = NoException
          /\ {r.value[i] : i \in DOMAIN r.value}
                = {v \in DOMAIN migrations_ : v > current}
          /\ \A i \in DOMAIN r.value, j \in DOMAIN r.value :
                i < j => r.value[i] < r.value[j]
          /\ r.e.db.records = conn.db.records
    /\ \A rc \in FaultCodes :
          pending(conn, migrations_, rc).e.db.records = conn.db.records

\* a step of pending changes neither the registered set nor the records
\* (part of C23)
C23_PendingChangesNothing ==
    (last'.op = "pending" /\ last' # last)
        => /\ migrations_' = migrations_
           /\ conn'.db.records = conn.db.records
           /\ conn'.db.schema = conn.db.schema

\* C23: pending returns exactly the registered units whose version is
\* greater than the current version, each once, in strictly ascending
\* version order, and changes neither the registered set nor the
\* bookkeeping records.
C23_PendingAscendingAboveCurrent ==
    []C23_PendingAreTheUnitsAboveCurrent /\ [][C23_PendingChangesNothing]_vars

\* pending has returned two units, in ascending order
C23_Witness ==
    /\ last.op = "pending"
    /\ last.exc = NoException
    /\ Len(last.ran) = 2
    /\ last.ran[1] < last.ran[2]

\* pending has returned the one unit above an applied one
C23_WitnessPartlyApplied ==
    /\ last.op = "pending"
    /\ last.exc = NoException
    /\ conn.db.records # {}
    /\ Len(last.ran) = 1
    /\ last.ran[1] > MaxOf(conn.db.records)

\* C24: rollbackTo with a target at or above the current version runs no
\* down procedure, issues no transaction command and leaves the bookkeeping
\* records (and everything else but the existence of the bookkeeping table)
\* as they were, whatever the engine would answer; it returns normally
\* unless the engine refuses to create the bookkeeping table.
C24_RollbackToAtOrAboveCurrentIsNoOp ==
    \A target \in Targets, plan \in Plans :
        target >= CurrentVersion
            => LET r == rollbackTo(conn, migrations_, target, plan)
               IN /\ r.ran = <<>>
                  /\ r.cmds = <<>>
                  /\ r.e.db.records = conn.db.records
                  /\ r.e.db.schema = conn.db.schema
                  /\ r.e.inTxn = conn.inTxn
                  /\ (plan.stage # "ensure") => r.exc = NoException

\* rollbackTo was called with a target at or above the current version while
\* units with a down procedure were registered above the target and at or
\* below it: it returned having done nothing
C24_Witness ==
    /\ last.op = "rollbackTo"
    /\ last.exc = NoException
    /\ last.arg >= CurrentVersion
    /\ conn.db.records # {}
    /\ \E v \in Registered : v > last.arg /\ migrations_[v].hasDown
    /\ last.ran = <<>>
    /\ last.cmds = <<>>

\* ------------------------------------------------------------------------
\* Statement values
\* ------------------------------------------------------------------------
SameValue(a, b) == a.kind = b.kind /\ a.v = b.v
IsNaN(value) == value.kind = "double" /\ value.v[1] = "nan"

C25_TypedReaderReturnsAllButNaN ==
    (last.op \in Readers \ {"columnValue"} /\ ~IsNaN(cell.bound))
        => SameValue(last.ran, cell.bound)

\* columnValue returns every bound value but NaN and the empty blob, which
\* it returns as null when the engine stored NULL for it (holds)
C25_ColumnValueReturnsAllButNaNAndEmptyBlob ==
    (last.op = "columnValue" /\ ~IsNaN(cell.bound))
        => \/ SameValue(last.ran, cell.bound)
           \/ /\ cell.bound = BlobValue(<<>>)
              /\ cell.stored = NullCell
              /\ last.ran = NullValue

\* the empty blob was stored as NULL and read back as null
C25_EmptyBlobReadAsNull ==
    /\ last.op = "columnValue"
    /\ cell.bound.kind = "blob"
    /\ last.ran.kind = "null"

\* the empty text and a blob with bytes were read back unchanged
C25_EmptyTextReadBack ==
    /\ last.op = "columnString"
    /\ cell.bound.kind = "text"
    /\ cell.bound.v = <<>>
    /\ SameValue(last.ran, cell.bound)

\* ------------------------------------------------------------------------
\* withTransaction
\* ------------------------------------------------------------------------

\* C26 as stated: once the transaction is begun, a func that returns
\* normally has its transaction committed and its result returned, and a
\* func that raises has the transaction rolled back, the exception
\* propagated and none of its changes kept.
C26_CommitsOnReturnRollsBackOnRaise ==
    (last.op = "withTransaction" /\ last.stage # "begin")
        => IF last.stage = "func"
           THEN /\ last.exc # NoException
                /\ ~conn.inTxn
                /\ conn.db = last.g0.atBegin
           ELSE /\ last.exc = NoException
                /\ last.ran = <<last.arg.row>>
                /\ ~conn.inTxn
                /\ last.arg.row \in conn.base.rows

\* C26, with the engine's answers and func's use of the Transaction taken
\* into account.  withTransaction issues BEGIN; when the engine refuses it
\* (or a transaction is open already) it throws without running func and
\* the connection is unchanged.  Otherwise func runs, and
\*  - when func returns normally without having ended the transaction and
\*    the engine accepts COMMIT, func's changes are committed and its result
\*    is returned; the call returns normally in no other case;
\*  - when func raises, or COMMIT is refused, the exception propagates and
\*    ROLLBACK is issued if func has not ended the transaction: func's
\*    changes are gone and no transaction is open when the engine carries the
\*    ROLLBACK out, and the transaction stays open, uncommitted, when it
\*    does not;
\*  - when func has ended the transaction itself its commit or rollback
\*    stands, and a normal return of func becomes a TransactionException.
C26_WithTransactionCommitsOrRollsBack ==
    \A f \in Funcs, rc1 \in ResultCodes, rc2 \in ResultCodes,
       cleanup \in CleanupCodes :
        LET r == withTransaction(conn, f, rc1, rc2, cleanup)
            began == rc1 = SQLITE_OK /\ ~conn.inTxn
            inserted == f.row \notin conn.db.rows
            after == [conn.db EXCEPT !.rows = @ \cup {f.row}]
            returned == inserted /\ ~f.raises
            ended == inserted /\ f.ends # "none"
        IN /\ ~began => (r.exc # NoException /\ r.e = conn /\ r.result = <<>>)
           /\ (r.exc = NoException)
                 <=> (began /\ returned /\ ~ended /\ rc2 = SQLITE_OK)
           /\ (r.exc = NoException)
                 => /\ r.result = <<f.row>>
                    /\ r.e.db = after /\ r.e.base = after /\ ~r.e.inTxn
           /\ (began /\ ~returned)
                 => r.exc = IF inserted THEN ProcedureFailure
                            ELSE ConstraintException(SQLITE_CONSTRAINT)
           /\ (began /\ ~ended /\ r.exc # NoException)
                 => /\ r.result = <<>>
                    /\ r.e.base = conn.base
                    /\ (cleanup = SQLITE_OK) => (r.e.db = conn.db /\ ~r.e.inTxn)
                    /\ (cleanup # SQLITE_OK) => r.e.inTxn
           /\ (began /\ ended)
                 => /\ r.e.db = IF f.ends = "commit" THEN after ELSE conn.db
                    /\ r.e.base = r.e.db /\ ~r.e.inTxn
                    /\ returned
                          => r.exc = TransactionException(
                                         "Transaction already ended", 0)

\* func inserted a row and returned: committed, result returned
C26_Witness ==
    /\ last.op = "withTransaction"
    /\ last.exc = NoException
    /\ last.ran = <<last.arg.row>>
    /\ last.arg.row \notin last.g0.atBegin.rows
    /\ last.arg.row \in conn.base.rows
    /\ ~conn.inTxn
    /\ last.cmds = <<Sql("BEGIN", "DEFERRED"), Sql("COMMIT", "")>>

\* func inserted a row and raised: rolled back, nothing kept
C26_WitnessRaise ==
    /\ last.op = "withTransaction"
    /\ last.stage = "func"
    /\ last.exc = ProcedureFailure
    /\ last.arg.ends = "none"
    /\ last.g0.atBegin.rows # {}
    /\ conn.db = last.g0.atBegin
    /\ ~conn.inTxn

\* ------------------------------------------------------------------------
\* BatchInsertBuilder
\* ------------------------------------------------------------------------
QueuedKeys == {batch.rows_[i][1] : i \in 1..Len(batch.rows_)}
ExecuteReturned ==
    /\ last.op = "BatchInsertBuilder::execute"
    /\ last.stage = "none"

\* C27: execute is all or nothing over the whole queue, for every number of
\* queued rows and every batch size: when it returns a count, the count is
\* the number of queued rows and every queued row is committed; when an
\* insert fails (and the engine carries out the ROLLBACK), the database is
\* the one before the call.
C27_ExecuteIsAllOrNothing ==
    (ExecuteReturned /\ last.cleanup = SQLITE_OK)
        => IF last.exc = NoException
           THEN /\ last.ran = <<Len(batch.rows_)>>
                /\ QueuedKeys \subseteq conn.base.rows
           ELSE conn.db = last.g0.atBegin

\* what execute guarantees: all or nothing when the queue fits in one batch
C27_OneBatchIsAllOrNothing ==
    (ExecuteReturned /\ last.cleanup = SQLITE_OK
        /\ Len(batch.rows_) <= batch.batchSize_)
        => IF last.exc = NoException
           THEN /\ last.ran = <<Len(batch.rows_)>>
                /\ QueuedKeys \subseteq conn.base.rows
                /\ (batch.rows_ # <<>>) => ~conn.inTxn
           ELSE conn.db = last.g0.atBegin

\* a failed execute keeps the rows of the batches before the failing one
C27_EarlierBatchesPersist ==
    /\ ExecuteReturned
    /\ last.exc.kind = "ConstraintException"
    /\ last.cleanup = SQLITE_OK
    /\ ~conn.inTxn
    /\ conn.base.rows # last.g0.atBegin.rows
    /\ batch.batchSize_ < Len(batch.rows_)

\* all rows of a queue longer than the batch size inserted
C27_AllInserted ==
    /\ ExecuteReturned
    /\ last.exc = NoException
    /\ last.ran = <<Len(batch.rows_)>>
    /\ batch.batchSize_ \in 1..(Len(batch.rows_) - 1)
    /\ QueuedKeys \subseteq conn.base.rows

\* ------------------------------------------------------------------------
\* Unit transactions of applyTo and rollbackTo
\* ------------------------------------------------------------------------
MigrationCalls == {"applyTo", "apply", "rollbackTo"}
TransactionCommands(cmds) ==
    SelectSeq(cmds, LAMBDA c : c.op \in {"BEGIN", "COMMIT", "ROLLBACK"})
\* the implicit ROLLBACK was issued and the engine refused it
RollbackRefused(o) ==
    /\ o.cleanup # SQLITE_OK
    /\ \E i \in 1..Len(o.cmds) : o.cmds[i].op = "ROLLBACK"

\* the transaction commands of the last call: BEGIN first; every later BEGIN
\* directly after a COMMIT; nothing after a ROLLBACK, after a COMMIT the
\* engine refused or after a BEGIN it refused
C28_BeginOnlyAfterCommit ==
    (last.op \in MigrationCalls)
        => LET T == TransactionCommands(last.cmds) IN
           /\ T # <<>> => T[1].op = "BEGIN"
           /\ \A i \in 2..Len(T) :
                 /\ T[i].op = "BEGIN" => T[i - 1].op = "COMMIT"
                 /\ T[i].op = "COMMIT" => T[i - 1].op = "BEGIN"
                 /\ T[i].op = "ROLLBACK" => i = Len(T)
           /\ last.stage = "commit"
                 => /\ Len(T) >= 2
                    /\ T[Len(T)].op = "ROLLBACK"
                    /\ T[Len(T) - 1].op = "COMMIT"
           /\ last.stage = "begin" => T[Len(T)].op = "BEGIN"
           /\ last.exc = NoException
                 => (T # <<>> => T[Len(T)].op = "COMMIT")

\* a call leaves the connection in a transaction only if it was in one
\* before, unless the engine refused the implicit ROLLBACK
C28_NoTransactionLeftOpen ==
    (last'.op \in MigrationCalls /\ ~RollbackRefused(last'))
        => (conn'.inTxn = conn.inTxn)

\* C28: during applyTo and rollbackTo each unit's transaction is begun only
\* after the previous unit's transaction has been committed, and when the
\* call returns, normally or with an error, no transaction begun by it is
\* still open on the connection, provided the engine's ROLLBACK succeeds.
C28_UnitTransactionsInSequence ==
    []C28_BeginOnlyAfterCommit /\ [][C28_NoTransactionLeftOpen]_vars

\* two units processed, the second failing after its BEGIN and rolled back
C28_Witness ==
    /\ last.op \in MigrationCalls
    /\ last.exc # NoException
    /\ last.cleanup = SQLITE_OK
    /\ ~conn.inTxn
    /\ TransactionCommands(last.cmds)
          = <<Sql("BEGIN", "DEFERRED"), Sql("COMMIT", ""),
              Sql("BEGIN", "DEFERRED"), Sql("ROLLBACK", "")>>

\* two units committed one after the other by rollbackTo
C28_WitnessRollbackTo ==
    /\ last.op = "rollbackTo"
    /\ last.exc = NoException
    /\ ~conn.inTxn
    /\ TransactionCommands(last.cmds)
          = <<Sql("BEGIN", "DEFERRED"), Sql("COMMIT", ""),
              Sql("BEGIN", "DEFERRED"), Sql("COMMIT", "")>>

\* ------------------------------------------------------------------------
\* The bookkeeping records of a manager whose units were registered first
\* ------------------------------------------------------------------------

\* C29: starting from an empty database, with all migrations registered
\* before the first apply, after any sequence of apply, applyTo and
\* rollbackTo calls, successful or failed, the versions with a bookkeeping
\* record are exactly the registered versions <= currentVersion(conn): no
\* gap and no unregistered version.
C29_RecordsAreTheRegisteredUpToCurrent ==
    conn.db.records
        = {v \in Registered : v <= currentVersion(conn, SQLITE_OK).value}

\* a rollbackTo that failed half way: the upper unit is gone, a lower one
\* still recorded
C29_Witness ==
    /\ last.op = "rollbackTo"
    /\ Failed(last)
    /\ Len(last.ran) >= 1
    /\ conn.db.records # {}
    /\ conn.db.records # Registered
    /\ conn.db.records = {v \in Registered : v <= CurrentVersion}

\* an applyTo that failed half way: a lower unit recorded, an upper one not
C29_WitnessApply ==
    /\ last.op \in {"apply", "applyTo"}
    /\ Failed(last)
    /\ conn.db.records # {}
    /\ conn.db.records # Registered
    /\ last.arg >= LatestVersion

\* ------------------------------------------------------------------------
\* The units rollbackTo selects
\* ------------------------------------------------------------------------

\* C30: rollbackTo runs the down procedure only of units that have a
\* bookkeeping record at that moment: every unit whose down procedure a
\* call runs had a record when the call began (the call removes the record
\* of a unit only after that unit's down procedure).
C30_DownRunsOnlyForRecordedUnits ==
    [][(last'.op = "rollbackTo")
          => \A i \in 1..Len(last'.ran) : last'.ran[i] \in conn.db.records]_vars

\* the down procedure of a unit without a record has run, and the call
\* returned without error
C30_DownOfUnrecordedUnitRan ==
    /\ last.op = "rollbackTo"
    /\ last.exc = NoException
    /\ Len(last.ran) = 2
    /\ last.ran[2] \notin conn.db.schema
    /\ conn.db.records = {}

\* ------------------------------------------------------------------------
\* Savepoints and their enclosing transaction
\* ------------------------------------------------------------------------
ActiveSavepoints == {x \in SpIds : sps[x].alive /\ sps[x].active_}

\* C31: whenever a Savepoint guard is Active a transaction is open on its
\* connection: no sequence of Transaction and Savepoint operations reaches a
\* state where a Savepoint guard is Active while no transaction is open.
C31_ActiveSavepointHasOpenTransaction ==
    (ActiveSavepoints # {}) => conn.inTxn

\* a Savepoint guard is Active, created through its Transaction, after the
\* Transaction has committed
C31_SavepointOutlivesCommit ==
    /\ last.op = "commit"
    /\ last.exc = NoException
    /\ ActiveSavepoints # {}
    /\ ~conn.inTxn

\* a Savepoint guard is Active with no Transaction guard at all: the engine
\* has opened a transaction of its own for the SAVEPOINT
C31_SavepointWithoutTransactionGuard ==
    /\ last.op = "Savepoint"
    /\ last.exc = NoException
    /\ ActiveSavepoints # {}
    /\ \A t \in TxnIds : ~txns[t].alive
    /\ conn.inTxn /\ conn.spTxn

\* ------------------------------------------------------------------------
\* Explicit operations that fail
\* ------------------------------------------------------------------------
TransactionEnds == {"commit", "rollback"}
SavepointEnds == {"release", "Savepoint::rollback"}

\* an explicit commit or rollback on an Active Transaction: the guard is
\* inactive afterwards exactly when the command succeeded; after a failure
\* it is unchanged and its destruction issues ROLLBACK
C32_TransactionStaysActiveOnFailure ==
    (last'.op \in TransactionEnds /\ txns[last'.arg].active_)
        => LET g == txns'[last'.arg] IN
           /\ ~g.active_ <=> last'.exc = NoException
           /\ Len(last'.cmds) = 1
           /\ last'.exc # NoException
                 => /\ g = txns[last'.arg]
                    /\ conn'.db = conn.db /\ conn'.inTxn = conn.inTxn
                    /\ \A rc \in ResultCodes :
                          Transaction_dtor(conn', g, rc).cmds
                              = <<Sql("ROLLBACK", "")>>

\* an explicit release or rollback on an Active Savepoint: the guard is
\* inactive afterwards exactly when every command succeeded; after a
\* failure, also of the RELEASE that follows a successful ROLLBACK TO
\* SAVEPOINT, it is unchanged and its destruction issues RELEASE
C32_SavepointStaysActiveOnFailure ==
    (last'.op \in SavepointEnds /\ sps[last'.arg].active_)
        => LET g == sps'[last'.arg] IN
           /\ ~g.active_ <=> last'.exc = NoException
           /\ last'.exc = NoException
                 => Len(last'.cmds) = IF last'.op = "release" THEN 1 ELSE 2
           /\ last'.exc # NoException
                 => /\ g = sps[last'.arg]
                    /\ \A rc \in ResultCodes :
                          Savepoint_dtor(conn', g, rc).cmds
                              = <<Sql("RELEASE SAVEPOINT", g.name_)>>

\* C32: an explicit commit, rollback, release or savepoint-rollback marks
\* its guard inactive only if every engine command it issued succeeded; when
\* a command fails the guard stays Active and its later destruction issues
\* the implicit ROLLBACK (transaction) or RELEASE (savepoint).
C32_GuardEndsOnlyOnSuccess ==
    /\ [][C32_TransactionStaysActiveOnFailure]_vars
    /\ [][C32_SavepointStaysActiveOnFailure]_vars

\* RELEASE failed after a successful ROLLBACK TO SAVEPOINT: still Active
C32_Witness ==
    /\ last.op = "Savepoint::rollback"
    /\ last.exc.kind = "TransactionException"
    /\ Len(last.cmds) = 2
    /\ sps[last.arg].alive /\ sps[last.arg].active_

\* the destruction of a Transaction that is still Active issues ROLLBACK
C32_WitnessDestroyedActive ==
    /\ last.op = "~Transaction"
    /\ last.cmds = <<Sql("ROLLBACK", "")>>
    /\ last.g0.active_
    /\ last.g0.ends = 0
    /\ ~conn.inTxn

\* ------------------------------------------------------------------------
\* Moving guards
\* ------------------------------------------------------------------------

\* moving a Transaction: the source ends inactive and silent, the target
\* holds what the source held, and an Active target is rolled back first
C33_TransactionMoves ==
    \A from \in TxnSlots, to \in TxnSlots, rc \in MoveCodes :
        (from # to /\ txns[from].alive)
            => /\ ~txns[to].alive
                  => LET r == Transaction_move_ctor(conn, txns[from]) IN
                     /\ r.cmds = <<>> /\ r.e = conn
                     /\ r.g.active_ = txns[from].active_
                     /\ ~r.other.active_
                     /\ Transaction_dtor(r.e, r.other, rc).cmds = <<>>
               /\ txns[to].alive
                  => LET r == Transaction_move_assign(conn, txns[to],
                                                      txns[from], rc) IN
                     /\ r.cmds = IF txns[to].active_
                                 THEN <<Sql("ROLLBACK", "")>> ELSE <<>>
                     /\ r.g.active_ = txns[from].active_
                     /\ ~r.other.active_
                     /\ Transaction_dtor(r.e, r.other, rc).cmds = <<>>

\* moving a Savepoint: the same, an Active target being released first
C33_SavepointMoves ==
    \A from \in SpIds, to \in SpIds, rc \in MoveCodes :
        (from # to /\ sps[from].alive)
            => /\ ~sps[to].alive
                  => LET r == Savepoint_move_ctor(conn, sps[from]) IN
                     /\ r.cmds = <<>> /\ r.e = conn
                     /\ r.g.active_ = sps[from].active_
                     /\ r.g.name_ = sps[from].name_
                     /\ ~r.other.active_
                     /\ Savepoint_dtor(r.e, r.other, rc).cmds = <<>>
               /\ sps[to].alive
                  => LET r == Savepoint_move_assign(conn, sps[to],
                                                    sps[from], rc) IN
                     /\ r.cmds = IF sps[to].active_
                                 THEN <<Sql("RELEASE SAVEPOINT", sps[to].name_)>>
                                 ELSE <<>>
                     /\ r.g.active_ = sps[from].active_
                     /\ r.g.name_ = sps[from].name_
                     /\ ~r.other.active_
                     /\ Savepoint_dtor(r.e, r.other, rc).cmds = <<>>

\* C33: moving a Transaction or Savepoint guard transfers responsibility for
\* the open transaction/savepoint: after move construction or move
\* assignment the source is inactive and issues no engine command when
\* destroyed, move-assigning onto an Active guard first issues that guard's
\* implicit cleanup (ROLLBACK, or RELEASE for a savepoint), and for each
\* begun transaction at most one guard is Active at any time.
C33_MovesTransferResponsibility ==
    /\ C33_TransactionMoves
    /\ C33_SavepointMoves
    /\ Cardinality(ActiveTransactions) <= 1
    /\ (ActiveTransactions # {}) => conn.inTxn

\* an Active Savepoint was move-assigned onto an Active one: the target's
\* savepoint was released, the target now holds the source's, the source is
\* inactive
C33_Witness ==
    /\ last.op = "Savepoint::operator="
    /\ last.g0.active_
    /\ last.cmds = <<Sql("RELEASE SAVEPOINT", last.g0.name_)>>
    /\ sps[last.arg].active_
    /\ sps[last.arg].name_ # last.g0.name_
    /\ \A x \in SpIds \ {last.arg} : sps[x].alive /\ ~sps[x].active_

\* an ended Transaction was move-assigned onto the Active one, which was
\* rolled back
C33_WitnessTransaction ==
    /\ last.op = "operator="
    /\ last.g0.active_
    /\ last.cmds = <<Sql("ROLLBACK", "")>>
    /\ ActiveTransactions = {}
    /\ ~conn.inTxn

\* an Active Transaction was moved into a new object
C33_WitnessMoveConstructed ==
    /\ last.op = "Transaction(&&)"
    /\ ActiveTransactions = {last.arg}
    /\ \E t \in TxnSlots \ {last.arg} : txns[t].alive /\ ~txns[t].conn_

\* ------------------------------------------------------------------------
\* Finalization of compiled statements
\* ------------------------------------------------------------------------
HeldHandles == {statements.obj[q].stmt_ : q \in StmtIds} \ {0}
PreparedHandles == 1..statements.prepared

\* C34: every compiled statement handle is finalized exactly once under
\* every ordering of Statement destruction, Statement move/move-assignment
\* and Connection close: no handle is finalized twice, and a handle no
\* Statement holds any more has been finalized.
C34_EveryHandleFinalizedExactlyOnce ==
    \A h \in PreparedHandles :
        /\ statements.finalized[h] <= 1
        /\ (h \notin HeldHandles) => (statements.finalized[h] = 1)

\* what the code guarantees: no handle is left unfinalized once no Statement
\* holds it, no two Statements hold the same handle, and while the
\* connection is open no handle is finalized twice
C34_ExactlyOnceWhileOpen ==
    /\ \A h \in PreparedHandles :
          /\ (h \notin HeldHandles) => (statements.finalized[h] >= 1)
          /\ statements.db_ => (statements.finalized[h] <= 1)
          /\ statements.db_ => (h \in HeldHandles <=> statements.finalized[h] = 0)
    /\ \A q1 \in StmtIds, q2 \in StmtIds :
          (q1 # q2 /\ statements.obj[q1].stmt_ # 0)
              => statements.obj[q1].stmt_ # statements.obj[q2].stmt_

\* a Statement outstanding at close was destroyed afterwards: its handle has
\* been finalized by close and again by the Statement
C34_FinalizedTwice ==
    /\ last.op = "~Statement"
    /\ ~statements.db_
    /\ \E h \in PreparedHandles : statements.finalized[h] = 2

\* a Statement holds a handle that close has freed
C34_DanglingAfterClose ==
    /\ last.op = "close"
    /\ \E q \in StmtIds : Dangling(statements, q)

\* ------------------------------------------------------------------------
\* Termination of BatchInsertBuilder::execute
\* ------------------------------------------------------------------------
\* C35: BatchInsertBuilder::execute terminates for every number of queued
\* rows and every batch size setBatchSize accepts, a batch size of 0
\* included: no call is left without a return or an exception.
C35_ExecuteTerminates ==
    (last.op = "BatchInsertBuilder::execute") => (last.stage # "no return")

\* what the code guarantees: the call ends when the batch size is positive
\* or nothing is queued
C35_TerminatesWithPositiveBatchSize ==
    (/\ last.op = "BatchInsertBuilder::execute"
     /\ \/ batch.batchSize_ > 0
        \/ batch.rows_ = <<>>)
        => (last.stage # "no return")

\* a call with batch size 0 and a row queued: the loop never advances
C35_ZeroBatchSizeNeverReturns ==
    /\ last.op = "BatchInsertBuilder::execute"
    /\ batch.batchSize_ = 0
    /\ batch.rows_ # <<>>
    /\ last.stage = "no return"

\* ------------------------------------------------------------------------
\* isUpToDate
\* ------------------------------------------------------------------------
\* C36: for every registered set and every bookkeeping state, isUpToDate(conn)
\* returns true exactly when pending(conn) is empty, that is exactly when
\* currentVersion(conn) >= latestVersion(); with an empty registered set it
\* returns true for every database.
C36_UpToDateIffNothingPending ==
    (last.op = "isUpToDate" /\ last.exc.kind = "none") =>
        /\ (last.arg = 1) <=> (pending(conn, migrations_, SQLITE_OK).value = <<>>)
        /\ (last.arg = 1) <=>
              (currentVersion(conn, SQLITE_OK).value >= latestVersion(migrations_))
        /\ (Registered = {}) => (last.arg = 1)
        /\ last.arg \in {0, 1}

\* isUpToDate answered true on a database with records, where the highest
\* registered version is the highest recorded one
C36_Witness ==
    /\ last.op = "isUpToDate" /\ last.exc.kind = "none"
    /\ last.arg = 1
    /\ Registered # {}
    /\ CurrentVersion = LatestVersion

\* isUpToDate answered false: a registered unit is pending
C36_WitnessPending ==
    /\ last.op = "isUpToDate" /\ last.exc.kind = "none"
    /\ last.arg = 0
    /\ conn.db.records # {}

\* isUpToDate answered true with nothing registered, on a migrated database
C36_WitnessEmptySet ==
    /\ last.op = "isUpToDate" /\ last.exc.kind = "none"
    /\ Registered = {}
    /\ conn.db.records # {}

\* ------------------------------------------------------------------------
\* applyTo at or below the current version
\* ------------------------------------------------------------------------
\* the step is a call applyTo(conn, target) with target <= currentVersion
ApplyToAtOrBelowCurrent ==
    /\ last'.op = "applyTo"
    /\ last'.arg <= SelectMaxVersion(conn.db)

\* C37 (first part): applyTo(conn, target) with target <= currentVersion(conn)
\* runs no up procedure, begins no transaction and leaves the bookkeeping
\* records unchanged.
C37_NothingToApply ==
    [][ApplyToAtOrBelowCurrent =>
          /\ last'.ran = <<>>
          /\ \A i \in DOMAIN last'.cmds : last'.cmds[i].op # "BEGIN"
          /\ conn'.db.records = conn.db.records
          /\ conn'.base.records = conn.base.records
          /\ conn'.db.schema = conn.db.schema
          /\ conn'.inTxn = conn.inTxn]_vars

\* C37 (second part): no applyTo or apply call, returning or raising, lowers
\* currentVersion.
C37_NeverLowersCurrentVersion ==
    [][(last'.op \in {"applyTo", "apply"}) =>
          /\ SelectMaxVersion(conn'.db) >= SelectMaxVersion(conn.db)
          /\ conn.db.records \subseteq conn'.db.records]_vars

\* C37: applyTo(conn, target) with target <= currentVersion(conn) runs no up
\* procedure, begins no transaction and leaves the bookkeeping records
\* unchanged, so no applyTo call ever lowers currentVersion.
C37_ApplyToNeverGoesBack ==
    C37_NothingToApply /\ C37_NeverLowersCurrentVersion

\* applyTo returned for a target below the current version although a unit
\* at or below the target is registered: nothing ran
C37_Witness ==
    /\ last.op = "applyTo" /\ last.exc.kind = "none"
    /\ last.arg < CurrentVersion
    /\ \E v \in Registered : v <= last.arg
    /\ last.ran = <<>>

\* applyTo for the current version itself, with a higher unit registered
C37_WitnessAtCurrent ==
    /\ last.op = "applyTo" /\ last.exc.kind = "none"
    /\ last.arg = CurrentVersion
    /\ last.arg > 0
    /\ LatestVersion > CurrentVersion

\* an applyTo call that failed half way: the units before the failing one
\* stay recorded
C37_WitnessFailedAbove ==
    /\ last.op = "applyTo" /\ last.exc.kind # "none"
    /\ last.ran # <<>>
    /\ conn.db.records # {}

====
